---- MODULE Spec2Model ----
(***************************************************************************)
(* Job lifecycle and progress streaming of the advanced analysis API       *)
(* (advanced_api.py) together with the staged pipeline of                  *)
(* AdvancedAudioAnalyzer.analyze_audio_file (advanced_audio_analyzer.py).   *)
(*                                                                         *)
(* progress_store is the registry, progress_lock its only lock.  Every     *)
(* "with progress_lock:" block that cannot be suspended inside is one      *)
(* atomic action guarded by the lock being free; the one block that        *)
(* yields while inside the "with" (the not-found branch of                 *)
(* generate_progress) keeps the lock across steps.                         *)
(***************************************************************************)
EXTENDS Integers, Sequences, FiniteSets, TLC

(* ---------------------------------------------------------------------- *)
(* Bounds and inputs                                                       *)
(* ---------------------------------------------------------------------- *)

\* job ids handed out by uuid4 in analyze_audio; clients may ask for any id
JobIds == {"j1", "j2"}

\* ids for which a submission is made
Submitters == {"j1"}

\* running snapshots one stream may emit before it waits for a change
MaxEvents == 2

\* len(times): number of pitch frames of the uploaded audio
TotalFrames == 4300

\* bpm_hint values sent by the client
BpmHints == {0, 120}

\* tempo estimates returned by the beat tracker
TempoEstimates == {30, 120}

(* ---------------------------------------------------------------------- *)
(* Program constants                                                       *)
(* ---------------------------------------------------------------------- *)

MAX_FILE_SIZE == 16777216
ProgressEvery == 2000
LoopBase == 80
LoopSpan == 15
MinTempo == 60
MaxTempo == 200

VARIABLES
    progress_store,  \* id -> record, or NoJob when the key is absent
    progress_lock,   \* "free" or the name of the holder
    hpc,        \* position of the submit handler analyze_audio, per id
    hint,       \* bpm_hint of the submission
    tphase,     \* phase of the background thread run_analysis
    tstep,      \* index of the next step of analyze_audio_file
    tframe,     \* frame index i of the segmentation loop
    tempo,      \* local variable tempo of analyze_audio_file
    terr,       \* the exception e captured by run_analysis
    calls,      \* number of invocations of each collaborator, per job
    spc,        \* position of the stream generator generate_progress
    sjob,       \* job_id of the stream
    ssnap,      \* status held in the generator's progress_data
    events,     \* events the generator has yielded
    resp,       \* last response of a poll / result / cleanup request
    frequency,  \* argument of snap_to_pentatonic / frequency_to_key
    snapped,    \* snap_to_pentatonic(frequency)
    resnapped,  \* snap_to_pentatonic(snapped)
    symbol,     \* frequency_to_key(frequency)
    frames,     \* zip(f0_smoothed, voiced_probs) as runs of equal frames
    bpm,        \* float(tempo) in the segmentation loop
    frame_i,    \* index i of the next frame of the loop
    sequence,   \* the notes emitted so far
    current_freq,         \* quantized frequency of the open note, or None
    current_start_time,   \* time of the first frame of the open note
    current_frame_count,  \* frames of the open note
    seg_pc,     \* "idle", "loop" (in the frame loop), "done" (loop and
                \* final flush over), "merged" or "result"
    frame_errors,     \* frames whose processing raised
    after_merge,      \* sequence after merge_consecutive_notes
    result_sequence,  \* result["sequence"]: after the duration filter
    notes,      \* argument of merge_consecutive_notes
    merged,     \* merge_consecutive_notes(notes)
    remerged,   \* merge_consecutive_notes(merged)
    merge_pc,   \* "idle", "input", "merged", "remerged" or "filtered"
    filtered,   \* the notes of merged that the duration filter keeps
    rt_freq,    \* original_freq of test_round_trip
    rt_via,     \* how frequency_to_key is looked up: on the instance or the class
    rt_key,     \* key returned by frequency_to_key
    rt_recovered,  \* recovered_freq returned by get_frequency_from_key
    rt_pc,      \* "idle", "start", "keyed", "raised" or "recovered"
    cap_i,      \* frame index i of the loop under the wall-clock cap
    cap_now,    \* time_module.time() - start_time, in seconds
    cap_last,   \* last_progress_time - start_time
    cap_over,   \* frames processed with the elapsed time above the cap
    cap_pc,     \* "idle", "loop", "timeout" (break) or "end"
    bt_estimate,   \* tempo returned by beat_track, or NoEstimate if it raised
    bt_hint,       \* bpm_hint
    bt_tempo,      \* tempo and tempo_source after the selection
    bt_min_frames, \* min_frames computed from the tempo
    bt_result,     \* detected_tempo and tempo_source of the result
    bt_pc          \* "idle", "start", "selected", "ready", "raised", "reported"

\* the variables of the job registry, its handlers and threads
jvars == <<progress_store, progress_lock, hpc, hint, tphase, tstep, tframe,
           tempo, terr, calls, spc, sjob, ssnap, events, resp>>

\* the variables of the quantizer
qvars == <<frequency, snapped, resnapped, symbol>>

\* the variables of the segmentation loop of analyze_audio_file
gvars == <<frames, bpm, frame_i, sequence, current_freq, current_start_time,
           current_frame_count, seg_pc, frame_errors, after_merge,
           result_sequence>>

\* the post-processed sequences
postvars == <<after_merge, result_sequence>>

\* the variables of the merge pass
mvars == <<notes, merged, remerged, merge_pc, filtered>>

\* the variables of the key round trip on the basic AudioAnalyzer
rvars == <<rt_freq, rt_via, rt_key, rt_recovered, rt_pc>>

\* the variables of the frame loop's wall-clock cap
cvars == <<cap_i, cap_now, cap_last, cap_over, cap_pc>>

\* the variables of the tempo stage on its own
evars == <<bt_estimate, bt_hint, bt_tempo, bt_min_frames, bt_result, bt_pc>>

\* the variables of the note functions, which no request or thread step
\* of the job model touches
pvars == <<qvars, gvars, mvars, rvars, cvars, evars>>

vars == <<jvars, pvars>>

hvars == <<hpc, hint>>
tvars == <<tphase, tstep, tframe, tempo, terr, calls>>
svars == <<spc, sjob, ssnap, events>>

(* ---------------------------------------------------------------------- *)
(* Registry records                                                        *)
(* ---------------------------------------------------------------------- *)

Msg(text, err) == [text |-> text, err |-> err]

NoJob == [stage |-> -1, message |-> Msg("", "none"), progress |-> -1,
          status |-> "absent", debug |-> "", result |-> FALSE,
          thread |-> FALSE]

\* the record written by analyze_audio when it initialises progress
NewJob == [stage |-> 0, message |-> Msg("Starting analysis...", "none"),
           progress |-> 0, status |-> "running", debug |-> "",
           result |-> FALSE, thread |-> FALSE]

Present(st, j) == st[j] # NoJob

Terminal(s) == s \in {"completed", "failed"}

\* no request was answered by the last step
NoResp == [op |-> "none", id |-> "none", code |-> 0, body |-> "none",
           status |-> "none", message |-> Msg("", "none"), cleaned |-> 0]

(* ---------------------------------------------------------------------- *)
(* Validation of an upload by analyze_audio                                *)
(* ---------------------------------------------------------------------- *)

ALLOWED_EXTENSIONS == {"wav", "mp3", "flac", "ogg", "m4a", "aac"}

\* str.lower() on the extensions that occur
Lower(ext) ==
    CASE ext = "WAV" -> "wav"
      [] ext = "TXT" -> "txt"
      [] OTHER -> ext

\* a file name is its part after the last dot ("none" without a dot) and
\* whether it is the empty string
FileName(empty, ext) == [empty |-> empty, ext |-> ext]

\* allowed_file(filename)
allowed_file(filename) ==
    filename.ext # "none" /\ Lower(filename.ext) \in ALLOWED_EXTENSIONS

\* the requests sent to /analyze: is there a 'file' part, its file name,
\* its size in bytes, and whether bpm_hint parses as an integer
Uploads ==
    {[file |-> TRUE, filename |-> FileName(FALSE, "WAV"), size |-> 1024,
      hint_ok |-> TRUE],
     [file |-> TRUE, filename |-> FileName(FALSE, "wav"),
      size |-> MAX_FILE_SIZE, hint_ok |-> FALSE],
     [file |-> FALSE, filename |-> FileName(TRUE, "none"), size |-> 0,
      hint_ok |-> TRUE],
     [file |-> TRUE, filename |-> FileName(TRUE, "none"), size |-> 0,
      hint_ok |-> TRUE],
     [file |-> TRUE, filename |-> FileName(FALSE, "txt"), size |-> 1024,
      hint_ok |-> TRUE],
     [file |-> TRUE, filename |-> FileName(FALSE, "none"), size |-> 1024,
      hint_ok |-> TRUE],
     [file |-> TRUE, filename |-> FileName(FALSE, "mp3"),
      size |-> MAX_FILE_SIZE + 1, hint_ok |-> TRUE]}

\* the checks of analyze_audio before a job id exists, in program order:
\* the error of the 400 response, "ValueError" when int(bpm_hint) raises,
\* or "ok"
validate(u) ==
    IF ~u.file THEN "No file provided"
    ELSE IF u.filename.empty THEN "No file selected"
    ELSE IF ~allowed_file(u.filename) THEN "Unsupported file type"
    ELSE IF u.size > MAX_FILE_SIZE THEN "File too large"
    ELSE IF ~u.hint_ok THEN "ValueError"
    ELSE "ok"

\* threading.Thread.is_alive() of the job's background thread
ThreadAlive(j) == tphase[j] \notin {"none", "done"}

(* ---------------------------------------------------------------------- *)
(* update_progress and the step table of analyze_audio_file                *)
(* ---------------------------------------------------------------------- *)

\* the argument value None of update_progress
NoProgress == -1
NoDebug == "None"

\* an update that writes the stage and message into every record
update_progress_AllJobs(st, j, stage, message, progress, debug_info) ==
    IF Present(st, j)
    THEN [k \in JobIds |->
            IF Present(st, k)
            THEN [st[k] EXCEPT !.stage = stage, !.message = message]
            ELSE st[k]]
    ELSE st

\* AdvancedAudioAnalyzer.update_progress, the body of its critical section
update_progress(st, j, stage, message, progress, debug_info) ==
    IF Present(st, j)
    THEN [st EXCEPT ![j] =
            [@ EXCEPT !.stage = stage,
                      !.message = message,
                      !.progress = IF progress # NoProgress THEN progress ELSE @,
                      !.debug = IF debug_info # NoDebug THEN debug_info ELSE @]]
    ELSE st

\* the job_id argument of the analyzer: a job id, or None
AnalyzerIds == JobIds \cup {"None"}

\* update_progress as called: "if job_id and progress_store is not None
\* and progress_lock is not None" guards the critical section
update_progress_call(st, id, stage, message, progress, debug_info) ==
    IF id # "None"
    THEN update_progress(st, id, stage, message, progress, debug_info)
    ELSE st

U(stage, progress, text) ==
    [kind |-> "update", stage |-> stage, progress |-> progress,
     text |-> text, collab |-> "none"]

K(collab) ==
    [kind |-> "call", stage |-> 0, progress |-> 0, text |-> "",
     collab |-> collab]

FramesStep ==
    [kind |-> "frames", stage |-> 6, progress |-> 0, text |-> "",
     collab |-> "none"]

\* the calls of analyze_audio_file that write the registry or call out,
\* in program order
Steps == <<
    U(1, 10, "Loading audio file"),
    K("load"),
    U(1, 20, "Audio loaded"),
    U(2, 25, "Separating audio stems"),
    U(2, 30, "Running Demucs separation"),
    K("separate"),
    U(2, 40, "Stems separated"),
    U(3, 45, "Selecting lead stem"),
    K("lead"),
    U(3, 50, "Lead stem selected"),
    U(4, 55, "Detecting pitch and notes"),
    K("pitch"),
    U(4, 65, "Pitch detection complete"),
    U(5, 70, "Tracking rhythm and tempo"),
    K("tempo"),
    U(5, 75, "Tempo"),
    U(6, 80, "Extracting and quantizing notes"),
    FramesStep,
    U(6, 90, "Extracted notes"),
    U(7, 95, "Post-processing and cleanup"),
    U(6, 95, "Finalizing results"),
    U(7, 100, "Analysis complete! notes") >>

NSteps == Len(Steps)

Collaborators == {"load", "separate", "lead", "pitch", "tempo"}

\* position of a collaborator's call in the pipeline
StepOf(c) == CHOOSE k \in 1..NSteps : Steps[k].collab = c

\* no estimate: beat_track was not called or raised
NoEstimate == -1

NoTempo == [bpm |-> -1, source |-> "none", estimate |-> NoEstimate]

\* a tempo selection that also rejects the estimates 60 and 200
SelectTempo_OpenRange(t, bpm_hint) ==
    IF t <= MinTempo \/ t >= MaxTempo
    THEN [bpm |-> bpm_hint, source |-> "BPM hint", estimate |-> t]
    ELSE [bpm |-> t, source |-> "detected", estimate |-> t]

\* the tempo selection after beat_track returned the estimate t
SelectTempo(t, bpm_hint) ==
    IF t < MinTempo \/ t > MaxTempo
    THEN [bpm |-> bpm_hint, source |-> "BPM hint", estimate |-> t]
    ELSE [bpm |-> t, source |-> "detected", estimate |-> t]

\* the tempo selection after beat_track raised
FallbackTempo(bpm_hint) ==
    [bpm |-> bpm_hint, source |-> "BPM hint (beat tracking failed)",
     estimate |-> NoEstimate]

\* 80 + (i / len(times)) * 15, rounded down to a whole percent
LoopProgress(i) == LoopBase + (i * LoopSpan) \div TotalFrames

AtStep(j, kind) ==
    /\ tphase[j] = "analyze"
    /\ Steps[tstep[j]].kind = kind

\* control after step k returned normally: the next step, or the return of
\* analyze_audio_file into run_analysis
Advance(j) ==
    IF tstep[j] < NSteps
    THEN /\ tstep' = [tstep EXCEPT ![j] = @ + 1]
         /\ tphase' = tphase
    ELSE /\ tstep' = [tstep EXCEPT ![j] = 0]
         /\ tphase' = [tphase EXCEPT ![j] = "complete"]

\* an Exception raised inside analyze_audio_file: re-raised as RuntimeError
\* and caught by the except block of run_analysis
Raise(j, e) ==
    /\ tphase' = [tphase EXCEPT ![j] = "except"]
    /\ terr' = [terr EXCEPT ![j] = e]
    /\ tstep' = [tstep EXCEPT ![j] = 0]

(* ---------------------------------------------------------------------- *)
(* The background thread: run_analysis and analyze_audio_file              *)
(* ---------------------------------------------------------------------- *)

\* one update_progress call of the step table
Update(j) ==
    /\ AtStep(j, "update")
    /\ progress_lock = "free"
    /\ LET s == Steps[tstep[j]] IN
         progress_store' = update_progress(progress_store, j, s.stage,
                               Msg(s.text, "none"), s.progress, "info")
    /\ Advance(j)
    /\ resp' = NoResp
    /\ UNCHANGED <<pvars, progress_lock, hvars, tframe, tempo, terr, calls, svars>>

\* update_progress called by an analyzer run whose job id is None or is
\* not in the registry: the call returns after printing
UpdateUnregistered ==
    /\ \E id \in AnalyzerIds :
         /\ IF id = "None"
            THEN TRUE
            ELSE ~Present(progress_store, id) /\ progress_lock = "free"
         /\ LET s == Steps[1] IN
              progress_store' = update_progress_call(progress_store, id,
                                    s.stage, Msg(s.text, "none"), s.progress,
                                    "info")
         /\ resp' = [NoResp EXCEPT !.op = "update_progress", !.id = id]
    /\ UNCHANGED <<pvars, progress_lock, hvars, tvars, svars>>

\* load, separate, choose_lead_stem, pyin return normally
Call(j) ==
    /\ AtStep(j, "call")
    /\ Steps[tstep[j]].collab # "tempo"
    /\ calls' = [calls EXCEPT ![j][Steps[tstep[j]].collab] = @ + 1]
    /\ Advance(j)
    /\ resp' = NoResp
    /\ UNCHANGED <<pvars, progress_store, progress_lock, hvars, tframe, tempo, terr,
                   svars>>

\* load, separate, choose_lead_stem (or its None result), pyin raise
CallRaise(j) ==
    /\ AtStep(j, "call")
    /\ Steps[tstep[j]].collab # "tempo"
    /\ calls' = [calls EXCEPT ![j][Steps[tstep[j]].collab] = @ + 1]
    /\ Raise(j, Steps[tstep[j]].collab)
    /\ resp' = NoResp
    /\ UNCHANGED <<pvars, progress_store, progress_lock, hvars, tframe, tempo, svars>>

\* a collaborator ends with a BaseException, which neither
\* "except Exception" catches: control goes to the finally block
CallFatal(j) ==
    /\ AtStep(j, "call")
    /\ calls' = [calls EXCEPT ![j][Steps[tstep[j]].collab] = @ + 1]
    /\ tphase' = [tphase EXCEPT ![j] = "finally"]
    /\ tstep' = [tstep EXCEPT ![j] = 0]
    /\ resp' = NoResp
    /\ UNCHANGED <<pvars, progress_store, progress_lock, hvars, tframe, tempo, terr,
                   svars>>

\* beat_track inside its own try/except, then the minimum note duration
\* 60.0 / float(tempo) * min_note_duration_beats
TempoCall(j) ==
    /\ AtStep(j, "call")
    /\ Steps[tstep[j]].collab = "tempo"
    /\ calls' = [calls EXCEPT ![j]["tempo"] = @ + 1]
    /\ \E t \in [bpm : TempoEstimates, source : {"detected"},
                estimate : {NoEstimate}]
               \cup {FallbackTempo(hint[j])} :
         LET chosen == IF t.source = "detected"
                       THEN SelectTempo(t.bpm, hint[j])
                       ELSE t
         IN  /\ tempo' = [tempo EXCEPT ![j] = chosen]
             /\ IF chosen.bpm = 0
                THEN Raise(j, "float division by zero")
                ELSE Advance(j) /\ terr' = terr
    /\ resp' = NoResp
    /\ UNCHANGED <<pvars, progress_store, progress_lock, hvars, tframe, svars>>

\* the frame loop from frame index i = tframe[j] to the next multiple of
\* ProgressEvery: the progress update at i (when i > 0), then the frames
FrameChunk(j) ==
    /\ AtStep(j, "frames")
    /\ LET i == tframe[j] IN
         /\ IF i > 0
            THEN /\ progress_lock = "free"
                 /\ progress_store' = update_progress(progress_store, j, 6,
                                 Msg("Processing frames", "none"),
                                 LoopProgress(i), "info")
            ELSE progress_store' = progress_store
         /\ IF i + ProgressEvery < TotalFrames
            THEN /\ tframe' = [tframe EXCEPT ![j] = i + ProgressEvery]
                 /\ UNCHANGED <<tphase, tstep>>
            ELSE /\ tframe' = [tframe EXCEPT ![j] = 0]
                 /\ Advance(j)
    /\ resp' = NoResp
    /\ UNCHANGED <<pvars, progress_lock, hvars, tempo, terr, calls, svars>>

\* the wall-clock cap is found exceeded at the check of frame i > 0:
\* the timeout update, then break
FrameTimeout(j) ==
    /\ AtStep(j, "frames")
    /\ tframe[j] > 0
    /\ progress_lock = "free"
    /\ progress_store' = update_progress(progress_store, j, 6,
                    Msg("Processing timeout", "none"),
                    LoopProgress(tframe[j]), "timeout")
    /\ tframe' = [tframe EXCEPT ![j] = 0]
    /\ Advance(j)
    /\ resp' = NoResp
    /\ UNCHANGED <<pvars, progress_lock, hvars, tempo, terr, calls, svars>>

\* the completion write without the result
CompletedRecord_NoResult(r) ==
    [r EXCEPT !.status = "completed",
              !.message = Msg("Analysis complete!", "none"),
              !.progress = 100]

\* the record written under the lock after analyze_audio_file returned
CompletedRecord(r) ==
    [r EXCEPT !.status = "completed",
              !.message = Msg("Analysis complete!", "none"),
              !.progress = 100,
              !.result = TRUE]

\* the failure write with a fixed message in place of str(e)
FailedRecord_Generic(r, e) ==
    [r EXCEPT !.status = "failed",
              !.message = Msg("Analysis failed", "none"),
              !.progress = 100]

\* the record written under the lock by the except block
FailedRecord(r, e) ==
    [r EXCEPT !.status = "failed",
              !.message = Msg("Analysis failed", e),
              !.progress = 100]

\* the finally block without its test for 'running'
FinalizedRecord_AlwaysFail(r) ==
    [r EXCEPT !.status = "failed",
              !.message = Msg("Analysis terminated unexpectedly", "none"),
              !.progress = 100,
              !.thread = FALSE]

\* the finally block that only drops the thread handle
FinalizedRecord_NoForce(r) ==
    [r EXCEPT !.thread = FALSE]

\* the finally block's critical section on the job's record
FinalizedRecord(r) ==
    LET f == IF r.status = "running"
             THEN [r EXCEPT !.status = "failed",
                            !.message = Msg("Analysis terminated unexpectedly",
                                            "none"),
                            !.progress = 100]
             ELSE r
    IN  [f EXCEPT !.thread = FALSE]

\* "Mark as completed and store result"; a missing key raises KeyError
Complete(j) ==
    /\ tphase[j] = "complete"
    /\ progress_lock = "free"
    /\ IF Present(progress_store, j)
       THEN /\ progress_store' =
                   [progress_store EXCEPT ![j] = CompletedRecord(@)]
            /\ tphase' = [tphase EXCEPT ![j] = "finally"]
            /\ terr' = terr
       ELSE /\ progress_store' = progress_store
            /\ tphase' = [tphase EXCEPT ![j] = "except"]
            /\ terr' = [terr EXCEPT ![j] = "KeyError"]
    /\ resp' = NoResp
    /\ UNCHANGED <<pvars, progress_lock, hvars, tstep, tframe, tempo, calls, svars>>

\* the except block; a missing key raises KeyError out of it
Except(j) ==
    /\ tphase[j] = "except"
    /\ progress_lock = "free"
    /\ progress_store' = IF Present(progress_store, j)
                THEN [progress_store EXCEPT ![j] = FailedRecord(@, terr[j])]
                ELSE progress_store
    /\ tphase' = [tphase EXCEPT ![j] = "finally"]
    /\ resp' = NoResp
    /\ UNCHANGED <<pvars, progress_lock, hvars, tstep, tframe, tempo, terr, calls,
                   svars>>

\* the finally block, after which the thread ends
Finally(j) ==
    /\ tphase[j] = "finally"
    /\ progress_lock = "free"
    /\ progress_store' = IF Present(progress_store, j)
                THEN [progress_store EXCEPT ![j] = FinalizedRecord(@)]
                ELSE progress_store
    /\ tphase' = [tphase EXCEPT ![j] = "done"]
    /\ resp' = NoResp
    /\ UNCHANGED <<pvars, progress_lock, hvars, tstep, tframe, tempo, terr, calls,
                   svars>>

(* ---------------------------------------------------------------------- *)
(* The submit handler analyze_audio (after validation)                     *)
(* ---------------------------------------------------------------------- *)

\* "Initialize progress": the record is created under the lock
SubmitCreate(j) ==
    /\ j \in Submitters
    /\ hpc[j] = "idle"
    /\ \E u \in Uploads : validate(u) = "ok"
    /\ progress_lock = "free"
    /\ \E h \in BpmHints : hint' = [hint EXCEPT ![j] = h]
    /\ progress_store' = [progress_store EXCEPT ![j] = NewJob]
    /\ hpc' = [hpc EXCEPT ![j] = "created"]
    /\ resp' = NoResp
    /\ UNCHANGED <<pvars, progress_lock, tvars, svars>>

\* a submission that creates a record although validation fails
SubmitReject_CreatesRecord ==
    /\ \E u \in Uploads :
         /\ validate(u) # "ok"
         /\ resp' = [NoResp EXCEPT
                        !.op = "analyze",
                        !.code = IF validate(u) = "ValueError"
                                 THEN 500 ELSE 400,
                        !.body = validate(u)]
    /\ \E j \in JobIds :
         /\ ~Present(progress_store, j)
         /\ progress_store' = [progress_store EXCEPT ![j] = NewJob]
    /\ UNCHANGED <<pvars, progress_lock, hvars, tvars, svars>>

\* a submission that fails validation returns 400; one whose bpm_hint is
\* not an integer raises before job_id is set and returns 500
SubmitReject ==
    /\ \E u \in Uploads :
         /\ validate(u) # "ok"
         /\ resp' = [NoResp EXCEPT
                        !.op = "analyze",
                        !.code = IF validate(u) = "ValueError"
                                 THEN 500 ELSE 400,
                        !.body = validate(u)]
    /\ UNCHANGED <<pvars, progress_store, progress_lock, hvars, tvars, svars>>

\* the upload is saved and the background thread is started
SubmitStart(j) ==
    /\ hpc[j] = "created"
    /\ hpc' = [hpc EXCEPT ![j] = "started"]
    /\ tphase' = [tphase EXCEPT ![j] = "analyze"]
    /\ tstep' = [tstep EXCEPT ![j] = 1]
    /\ resp' = NoResp
    /\ UNCHANGED <<pvars, progress_store, progress_lock, hint, tframe, tempo, terr,
                   calls, svars>>

\* file.save or thread.start raises: no thread runs
SubmitStartFail(j) ==
    /\ hpc[j] = "created"
    /\ hpc' = [hpc EXCEPT ![j] = "except"]
    /\ resp' = NoResp
    /\ UNCHANGED <<pvars, progress_store, progress_lock, hint, tvars, svars>>

\* "Store thread reference"; a missing key raises KeyError
SubmitStoreThread(j) ==
    /\ hpc[j] = "started"
    /\ progress_lock = "free"
    /\ IF Present(progress_store, j)
       THEN /\ progress_store' = [progress_store EXCEPT ![j].thread = TRUE]
            /\ hpc' = [hpc EXCEPT ![j] = "returned 200"]
       ELSE /\ progress_store' = progress_store
            /\ hpc' = [hpc EXCEPT ![j] = "except"]
    /\ resp' = NoResp
    /\ UNCHANGED <<pvars, progress_lock, hint, tvars, svars>>

\* the handler's except block: "Mark progress as failed if job_id exists"
SubmitExcept(j) ==
    /\ hpc[j] = "except"
    /\ progress_lock = "free"
    /\ progress_store' = IF Present(progress_store, j)
                THEN [progress_store EXCEPT ![j].status = "failed",
                                   ![j].message = Msg("Analysis failed",
                                                      "submit")]
                ELSE progress_store
    /\ hpc' = [hpc EXCEPT ![j] = "returned 500"]
    /\ resp' = NoResp
    /\ UNCHANGED <<pvars, progress_lock, hint, tvars, svars>>

(* ---------------------------------------------------------------------- *)
(* The stream generator generate_progress                                  *)
(* ---------------------------------------------------------------------- *)

\* a client opens /progress/<job_id>
StreamOpen(id) ==
    /\ spc = "idle"
    /\ spc' = "check"
    /\ sjob' = id
    /\ resp' = NoResp
    /\ UNCHANGED <<pvars, progress_store, progress_lock, hvars, tvars, ssnap, events>>

\* one pass of the loop up to its first yield: under the lock, either the
\* not-found event is yielded inside the "with" block, or the snapshot is
\* copied, the lock released and the snapshot yielded
StreamCheck ==
    /\ spc = "check"
    /\ progress_lock = "free"
    /\ IF ~Present(progress_store, sjob)
       THEN /\ events' = Append(events, "error")
            /\ spc' = "yield error"
            /\ progress_lock' = "stream"
            /\ ssnap' = ssnap
       ELSE /\ Terminal(progress_store[sjob].status) \/ Len(events) < MaxEvents
            /\ ssnap' = progress_store[sjob].status
            /\ events' = Append(events, progress_store[sjob].status)
            /\ spc' = "yield update"
            /\ progress_lock' = progress_lock
    /\ resp' = NoResp
    /\ UNCHANGED <<pvars, progress_store, hvars, tvars, sjob>>

\* the loop that breaks on a terminal snapshot without the final update
StreamResumeUpdate_NoFinal ==
    /\ spc = "yield update"
    /\ spc' = IF Terminal(ssnap) THEN "closed" ELSE "check"
    /\ resp' = NoResp
    /\ UNCHANGED <<pvars, progress_store, progress_lock, hvars, tvars, sjob, ssnap,
                   events>>

\* the generator is resumed after the progress update was delivered:
\* the final update for a terminal snapshot, else sleep and loop
StreamResumeUpdate ==
    /\ spc = "yield update"
    /\ IF Terminal(ssnap)
       THEN /\ events' = Append(events, ssnap)
            /\ spc' = "yield final"
       ELSE /\ events' = events
            /\ spc' = "check"
    /\ resp' = NoResp
    /\ UNCHANGED <<pvars, progress_store, progress_lock, hvars, tvars, sjob, ssnap>>

\* resumed after the final update: break
StreamResumeFinal ==
    /\ spc = "yield final"
    /\ spc' = "closed"
    /\ resp' = NoResp
    /\ UNCHANGED <<pvars, progress_store, progress_lock, hvars, tvars, sjob, ssnap,
                   events>>

\* the not-found branch without its break
StreamResumeError_NoBreak ==
    /\ spc = "yield error"
    /\ spc' = "check"
    /\ progress_lock' = "free"
    /\ resp' = NoResp
    /\ UNCHANGED <<pvars, progress_store, hvars, tvars, sjob, ssnap, events>>

\* the not-found branch leaving without releasing the lock
StreamResumeError_KeepLock ==
    /\ spc = "yield error"
    /\ spc' = "closed"
    /\ resp' = NoResp
    /\ UNCHANGED <<pvars, progress_store, progress_lock, hvars, tvars, sjob, ssnap,
                   events>>

\* resumed after the not-found event: break leaves the "with" block
StreamResumeError ==
    /\ spc = "yield error"
    /\ spc' = "closed"
    /\ progress_lock' = "free"
    /\ resp' = NoResp
    /\ UNCHANGED <<pvars, progress_store, hvars, tvars, sjob, ssnap, events>>

(* ---------------------------------------------------------------------- *)
(* Poll, result and cleanup requests                                       *)
(* ---------------------------------------------------------------------- *)

\* the response of get_progress_json
get_progress_json(st, id) ==
    IF ~Present(st, id)
    THEN [NoResp EXCEPT !.op = "progress", !.id = id, !.code = 404,
                        !.body = "Job not found"]
    ELSE [NoResp EXCEPT !.op = "progress", !.id = id, !.code = 200,
                        !.body = "snapshot", !.status = st[id].status]

\* get_result answering an unknown id like a failed job
get_result_UnknownFailed(st, id) ==
    IF ~Present(st, id)
    THEN [NoResp EXCEPT !.op = "result", !.id = id, !.code = 500,
                        !.body = "error", !.status = "failed"]
    ELSE IF st[id].status = "completed" /\ st[id].result
    THEN [NoResp EXCEPT !.op = "result", !.id = id, !.code = 200,
                        !.body = "result"]
    ELSE IF st[id].status = "failed"
    THEN [NoResp EXCEPT !.op = "result", !.id = id, !.code = 500,
                        !.body = "error", !.message = st[id].message]
    ELSE [NoResp EXCEPT !.op = "result", !.id = id, !.code = 202,
                        !.body = "Analysis not complete",
                        !.status = st[id].status]

\* the response of get_result
get_result(st, id) ==
    IF ~Present(st, id)
    THEN [NoResp EXCEPT !.op = "result", !.id = id, !.code = 404,
                        !.body = "Job not found"]
    ELSE IF st[id].status = "completed" /\ st[id].result
    THEN [NoResp EXCEPT !.op = "result", !.id = id, !.code = 200,
                        !.body = "result"]
    ELSE IF st[id].status = "failed"
    THEN [NoResp EXCEPT !.op = "result", !.id = id, !.code = 500,
                        !.body = "error", !.message = st[id].message]
    ELSE [NoResp EXCEPT !.op = "result", !.id = id, !.code = 202,
                        !.body = "Analysis not complete",
                        !.status = st[id].status]

GetProgressJson(id) ==
    /\ progress_lock = "free"
    /\ resp' = get_progress_json(progress_store, id)
    /\ UNCHANGED <<pvars, progress_store, progress_lock, hvars, tvars, svars>>

GetResult(id) ==
    /\ progress_lock = "free"
    /\ resp' = get_result(progress_store, id)
    /\ UNCHANGED <<pvars, progress_store, progress_lock, hvars, tvars, svars>>

\* jobs_to_remove of debug_cleanup
jobs_to_remove_AnyStatus ==
    {j \in JobIds :
        /\ Present(progress_store, j)
        /\ \/ progress_store[j].thread /\ ~ThreadAlive(j)
           \/ ~progress_store[j].thread}

jobs_to_remove ==
    {j \in JobIds :
        /\ Present(progress_store, j)
        /\ Terminal(progress_store[j].status)
        /\ \/ progress_store[j].thread /\ ~ThreadAlive(j)
           \/ ~progress_store[j].thread}

DebugCleanup ==
    /\ progress_lock = "free"
    /\ progress_store' = [j \in JobIds |->
                    IF j \in jobs_to_remove THEN NoJob ELSE progress_store[j]]
    /\ resp' = [NoResp EXCEPT !.op = "cleanup", !.code = 200,
                              !.cleaned = Cardinality(jobs_to_remove)]
    /\ UNCHANGED <<pvars, progress_lock, hvars, tvars, svars>>

(* ---------------------------------------------------------------------- *)
(* Quantizer: snap_to_pentatonic and frequency_to_key                      *)
(*                                                                         *)
(* Frequencies are integers in hundredths of a hertz (440.00 Hz is 44000), *)
(* which represents every entry of the key table exactly.  A float is a    *)
(* record: a finite value, or one of nan, inf, -inf.                       *)
(* ---------------------------------------------------------------------- *)

Fin(v) == [kind |-> "finite", v |-> v]
NaN == [kind |-> "nan", v |-> 0]
PosInf == [kind |-> "inf", v |-> 0]
NegInf == [kind |-> "-inf", v |-> 0]

\* np.isfinite
isfinite(x) == x.kind = "finite"

\* x <= 0 on floats: false for nan and inf, true for -inf
NonPositive(x) ==
    \/ x.kind = "-inf"
    \/ x.kind = "finite" /\ x.v <= 0

\* the keys of freq_to_key_map, sorted
available_frequencies ==
    <<6541, 7342, 8241, 8731, 9800, 11000, 12347, 13081, 14683, 16481,
      17461, 19600, 22000, 24694, 26163, 29366, 32963, 34923, 39200, 44000,
      49388, 52325, 58733, 65925>>

\* the values of freq_to_key_map, in the order of available_frequencies
KeySymbols ==
    <<"1", "2", "3", "4", "5", "6", "7", "a", "s", "d", "f", "g", "h", "j",
      "k", "l", "z", "x", "c", "v", "b", "n", "m", "p">>

freq_to_key_map ==
    [f \in {available_frequencies[k] : k \in 1..Len(available_frequencies)} |->
        KeySymbols[CHOOSE k \in 1..Len(available_frequencies) :
                        available_frequencies[k] = f]]

pentatonic_freqs ==
    <<13081, 14683, 16481, 19600, 22000, 26163, 29366, 32963, 39200, 44000,
      52325, 58733, 65925>>

ClampLow == 2000
ClampHigh == 800000

Max2(a, b) == IF a >= b THEN a ELSE b
Min2(a, b) == IF a <= b THEN a ELSE b

\* the product a * b of two naturals below 10^6 as <<high, low>> in base
\* 10^6, computed from three-digit halves so that no intermediate value
\* leaves the 32-bit range
Mul(a, b) ==
    LET a1 == a \div 1000
        a0 == a % 1000
        b1 == b \div 1000
        b0 == b % 1000
        mid == a1 * b0 + a0 * b1
        low == a0 * b0 + (mid % 1000) * 1000
    IN  <<a1 * b1 + mid \div 1000 + low \div 1000000, low % 1000000>>

Less(p, q) == p[1] < q[1] \/ (p[1] = q[1] /\ p[2] < q[2])

\* abs(hz_to_midi(x) - hz_to_midi(f)) < abs(hz_to_midi(y) - hz_to_midi(f)).
\* hz_to_midi(h) = 12 * (log2(h) - log2(440)) + 69, so the distance of x
\* from f is 12 * log2(max(f,x) / min(f,x)), and x is closer than y iff
\* max(f,x) * min(f,y) < max(f,y) * min(f,x).
Closer(f, x, y) ==
    Less(Mul(Max2(f, x), Min2(f, y)), Mul(Max2(f, y), Min2(f, x)))

\* min(list, key = distance in semitones from f): the element that no
\* element is closer than, and python's min keeps the first such element,
\* the one that is closer than every element before it
Nearest(list, f) ==
    LET first == CHOOSE k \in 1..Len(list) :
                    /\ \A j \in 1..Len(list) : ~Closer(f, list[j], list[k])
                    /\ \A j \in 1..(k - 1) : Closer(f, list[k], list[j])
    IN  list[first]

\* snap_to_pentatonic that returns the clamped frequency unquantized
snap_to_pentatonic_ClampOnly(x) ==
    IF NonPositive(x) \/ ~isfinite(x) THEN 0
    ELSE Max2(ClampLow, Min2(x.v, ClampHigh))

\* a quantizer that rounds up: the lowest pentatonic note strictly above
\* the clamped frequency, or the highest note when there is none
snap_to_pentatonic_NextAbove(x) ==
    IF NonPositive(x) \/ ~isfinite(x) THEN 0
    ELSE LET clamped == Max2(ClampLow, Min2(x.v, ClampHigh))
             above == {k \in 1..Len(pentatonic_freqs) :
                          pentatonic_freqs[k] > clamped}
         IN  IF above = {} THEN pentatonic_freqs[Len(pentatonic_freqs)]
             ELSE pentatonic_freqs[CHOOSE k \in above : \A m \in above : k <= m]

\* snap_to_pentatonic without its first test
snap_to_pentatonic_NoGuard(x) ==
    LET clamped == Max2(ClampLow, Min2(x.v, ClampHigh))
    IN  Nearest(available_frequencies, Nearest(pentatonic_freqs, clamped))

\* a quantizer without the pentatonic search: the nearest table entry
snap_to_pentatonic_TableOnly(x) ==
    IF NonPositive(x) \/ ~isfinite(x) THEN 0
    ELSE LET clamped == Max2(ClampLow, Min2(x.v, ClampHigh))
         IN  Nearest(available_frequencies, clamped)

\* snap_to_pentatonic; hz_to_midi does not raise on a clamped frequency,
\* so the except branch is not taken
snap_to_pentatonic(x) ==
    IF NonPositive(x) \/ ~isfinite(x) THEN 0
    ELSE LET clamped == Max2(ClampLow, Min2(x.v, ClampHigh))
             pentatonic_freq == Nearest(pentatonic_freqs, clamped)
         IN  Nearest(available_frequencies, pentatonic_freq)

\* frequency_to_key: dict.get with the default ' '
frequency_to_key(x) ==
    IF x.kind = "finite" /\ x.v = 0 THEN " "
    ELSE IF x.kind = "finite" /\ x.v \in DOMAIN freq_to_key_map
         THEN freq_to_key_map[x.v]
         ELSE " "

\* not computed yet
Unset == -1

QuantIdle ==
    /\ frequency = Fin(0)
    /\ snapped = Unset
    /\ resnapped = Unset
    /\ symbol = "unset"

\* highest frequency of the whole-hertz sweep, in hertz
MaxHz == 1000

\* the frequencies given to the quantizer: a sweep in steps of 1 Hz from
\* below zero to MaxHz, every hundredth of a hertz from 130 Hz to 150 Hz
\* (the lowest pentatonic notes and the boundary between them), the table
\* entries and their neighbours, the clamp limits and their neighbours,
\* and the non-finite values
Frequencies ==
    {Fin(100 * k) : k \in -3..MaxHz}
        \cup {Fin(v) : v \in 13000..15000}
        \cup {Fin(available_frequencies[k] + d) :
                 k \in 1..Len(available_frequencies), d \in {-1, 0, 1}}
        \cup {Fin(v) : v \in {-1, 1, ClampLow - 1, ClampLow, ClampLow + 1,
                              ClampHigh - 1, ClampHigh, ClampHigh + 1}}
        \cup {NaN, PosInf, NegInf}

(* ---------------------------------------------------------------------- *)
(* Segmentation: the frame loop of analyze_audio_file                      *)
(*                                                                         *)
(* Times are in samples (1/44100 s), so times[i] is i * hop_length;        *)
(* durations of notes are in quarter beats, the unit they are rounded to;  *)
(* confidences are in thousandths.                                         *)
(* ---------------------------------------------------------------------- *)

hop_length == 128
sr == 44100
ConfidenceThreshold == 10

\* 2 ^ (0.5 / 12) as a fraction: the frequency ratio of half a semitone
HalfSemitoneNum == 1029302
HalfSemitoneDen == 1000000

None == -1

\* one run of len equal frames
Run(freq, conf, len) == [freq |-> freq, conf |-> conf, len |-> len]

\* frames of the longest run: 0.5 s of audio
MaxRunLen == 172

\* f0 values: unvoiced, 261.63 Hz, 440 Hz and 450 Hz (which is quantized
\* to 440 Hz)
SegFreqs == {0, 26163, 44000, 45000}

\* voiced_probs values: at the threshold and far above it
SegConfs == {ConfidenceThreshold, 500}

\* a voiced_probs entry that cannot be compared with a number: evaluating
\* "voiced_probs[i] > 0.01" on it raises
Malformed == -1

\* 21 frames is min_frames at 120 BPM
RunLens == {1, 21, 25, MaxRunLen}

Runs ==
    {Run(f, c, n) : f \in SegFreqs, c \in SegConfs, n \in RunLens}
        \cup {Run(44000, Malformed, n) : n \in RunLens}

ShortRuns ==
    {r \in Runs : /\ r.len \in {21, 25}
                  /\ r.freq # 45000
                  /\ r.conf # ConfidenceThreshold}
        \cup {Run(44000, 500, 1)}

\* the frame streams: none, one or two runs, and three runs of 25 frames
Streams ==
    {<<>>} \cup {<<a>> : a \in Runs} \cup {<<a, b>> : a, b \in Runs}
        \cup {<<a, b, c>> : a, b, c \in ShortRuns}

Tempos == {60, 120}

RECURSIVE TotalLen(_)
TotalLen(rs) == IF rs = <<>> THEN 0 ELSE Head(rs).len + TotalLen(Tail(rs))

\* (f0_smoothed[i], voiced_probs[i])
FrameAt(rs, i) ==
    LET r == CHOOSE r \in 1..Len(rs) :
                 /\ TotalLen(SubSeq(rs, 1, r - 1)) <= i
                 /\ i < TotalLen(SubSeq(rs, 1, r))
    IN  rs[r]

\* "freq > 0 and voiced_probs[i] > 0.01" raises: the second operand is
\* evaluated only when freq > 0.  No other statement of the loop body
\* raises on finite frequencies, times and tempo: snap_to_pentatonic and
\* the semitone comparison catch their own exceptions, frequency_to_key is
\* a dictionary lookup with a default, and round gets a finite number.
Raises(fr) == fr.freq > 0 /\ fr.conf = Malformed

\* the frame takes the branch of "freq > 0 and voiced_probs[i] > 0.01"
Accepted(fr) ==
    fr.freq > 0 /\ fr.conf # Malformed /\ fr.conf > ConfidenceThreshold

\* the frame takes the else branch
Rejected(fr) ==
    IF fr.freq > 0
    THEN fr.conf # Malformed /\ ~(fr.conf > ConfidenceThreshold)
    ELSE TRUE

\* the frame frequencies taken as they are, without quantization
Quantized_Unsnapped == [f \in SegFreqs |-> f]

\* snap_to_pentatonic on the f0 values that occur
Quantized == [f \in SegFreqs |-> snap_to_pentatonic(Fin(f))]

\* min_frames = max(1, int(60.0 / tempo * 0.125 * sr / hop_length))
min_frames(t) == Max2(1, (60 * sr) \div (8 * hop_length * t))

\* python's round of num / den: to the nearest integer, a tie to the even one
Round(num, den) ==
    LET q == num \div den
        r == num % den
    IN  IF 2 * r < den THEN q
        ELSE IF 2 * r > den THEN q + 1
        ELSE IF q % 2 = 0 THEN q ELSE q + 1

\* the duration truncated instead of rounded
QuarterBeats_Floor(samples, t) == (samples * t * 4) \div (sr * 60)

\* round(samples / sr * tempo / 60 * 4), the duration in quarter beats
QuarterBeats(samples, t) == Round(samples * t * 4, sr * 60)

\* abs(hz_to_midi(a) - hz_to_midi(b)) < 0.5
is_same_note(a, b) ==
    Less(Mul(Max2(a, b), HalfSemitoneDen), Mul(Min2(a, b), HalfSemitoneNum))

Note(key, freq, duration, start) ==
    [key |-> key, frequency |-> freq, duration |-> duration,
     start_time |-> start]

\* the open note with the frame at the boundary counted in its duration
OpenNote_CountsNextFrame(t) ==
    Note(frequency_to_key(Fin(current_freq)), current_freq,
         QuarterBeats((current_frame_count + 1) * hop_length, t),
         current_start_time)

\* the note appended for the open note
OpenNote(t) ==
    Note(frequency_to_key(Fin(current_freq)), current_freq,
         QuarterBeats(current_frame_count * hop_length, t), current_start_time)

\* "current_freq is not None and current_frame_count >= min_frames"
LongEnough(t) ==
    current_freq # None /\ current_frame_count >= min_frames(t)

\* a pause that is given the start time of the note before it
Pause_AtNoteStart(time, t) ==
    LET duration_sec == current_frame_count * hop_length
        gap == time - (current_start_time + duration_sec)
    IN  IF gap * t * 8 > 60 * sr /\ QuarterBeats(gap, t) >= 1
        THEN <<Note(" ", 0, QuarterBeats(gap, t), current_start_time)>>
        ELSE <<>>

\* the pause after the open note, when the gap up to time is significant
Pause(time, t) ==
    LET duration_sec == current_frame_count * hop_length
        gap == time - (current_start_time + duration_sec)
    IN  IF gap * t * 8 > 60 * sr /\ QuarterBeats(gap, t) >= 1
        THEN <<Note(" ", 0, QuarterBeats(gap, t),
                    current_start_time + duration_sec)>>
        ELSE <<>>

\* an unvoiced frame that appends a pause whether or not a note was open
Unvoiced_PauseEveryFrame(time, t) ==
    sequence \o <<Note(" ", 0, 1, time)>>

\* the sequence after an unvoiced or low-confidence frame
Unvoiced(time, t) ==
    IF LongEnough(t)
    THEN (sequence \o <<OpenNote(t)>>) \o Pause(time, t)
    ELSE sequence

SegIdle ==
    /\ frames = <<>>
    /\ bpm = 120
    /\ frame_i = 0
    /\ sequence = <<>>
    /\ current_freq = None
    /\ current_start_time = None
    /\ current_frame_count = 0
    /\ seg_pc = "idle"
    /\ frame_errors = 0
    /\ after_merge = <<>>
    /\ result_sequence = <<>>

(* ---------------------------------------------------------------------- *)
(* merge_consecutive_notes                                                 *)
(*                                                                         *)
(* The function adds start_time (seconds) and duration (beats) as plain    *)
(* numbers.  Both are integers here in units of 1/882000, in which a       *)
(* quarter beat (0.25) is 220500 and the threshold 0.008 is 7056.          *)
(* ---------------------------------------------------------------------- *)

\* threshold_frames * 0.008
MergeThreshold == 7056

\* 0.25
Quarter == 220500

\* the loop of merge_consecutive_notes from next_note = seq[k] on, with
\* current_note = cur and merged = out
RECURSIVE MergeFrom(_, _, _, _)
MergeFrom(seq, k, cur, out) ==
    IF k > Len(seq) THEN Append(out, cur)
    ELSE LET next_note == seq[k]
             time_gap == next_note.start_time - (cur.start_time + cur.duration)
         IN  IF /\ cur.key = next_note.key
                /\ cur.frequency = next_note.frequency
                /\ time_gap <= MergeThreshold
             THEN MergeFrom(seq, k + 1,
                            [cur EXCEPT !.duration =
                                            @ + next_note.duration + time_gap],
                            out)
             ELSE MergeFrom(seq, k + 1, next_note, Append(out, cur))

\* a merge pass that only looks at the first two notes
merge_consecutive_notes_FirstPair(seq) ==
    IF Len(seq) <= 2
    THEN IF seq = <<>> THEN seq ELSE MergeFrom(seq, 2, seq[1], <<>>)
    ELSE MergeFrom(SubSeq(seq, 1, 2), 2, seq[1], <<>>)
            \o SubSeq(seq, 3, Len(seq))

merge_consecutive_notes(seq) ==
    IF seq = <<>> THEN seq ELSE MergeFrom(seq, 2, seq[1], <<>>)

\* 0.125, the shortest duration the filter keeps
MinDuration == 110250

\* 1/44100 s
Sample == 20

\* the notes of the segmentation loop as the numbers the merge pass and
\* the filter compute with: start_time in seconds, duration in beats
Numbers(seq) ==
    [k \in 1..Len(seq) |->
        [seq[k] EXCEPT !.duration = @ * Quarter, !.start_time = @ * Sample]]

Keeps(note) == note.duration >= MinDuration

\* a filter that keeps only the notes longer than 0.125
filter_short_notes_Strict(seq) ==
    SelectSeq(seq, LAMBDA note : note.duration > MinDuration)

\* [note for note in sequence if note['duration'] >= 0.125]
filter_short_notes(seq) == SelectSeq(seq, Keeps)

\* longest note sequence given to the merge pass
MaxNotes == 3

\* (key, frequency) of the notes: 440 Hz, 261.63 Hz
MergeKeys == {<<"v", 44000>>, <<"k", 26163>>}

\* durations: a quarter beat and half a beat
MergeDurations == {Quarter, 2 * Quarter}

\* start times: 0, a quarter, a quarter plus the threshold (the largest
\* gap after a quarter note at 0 that still merges), one unit more, and
\* half plus the threshold
MergeStarts ==
    {0, Quarter, Quarter + MergeThreshold, Quarter + MergeThreshold + 1,
     2 * Quarter + MergeThreshold}

MergeNotes ==
    {Note(k[1], k[2], d, st) :
        k \in MergeKeys, d \in MergeDurations, st \in MergeStarts}

\* the note sequences of at most MaxNotes notes ordered by start_time
Sequences ==
    {sq \in UNION {[1..n -> MergeNotes] : n \in 0..MaxNotes} :
        \A i \in 1..(Len(sq) - 1) : sq[i].start_time <= sq[i + 1].start_time}

\* longest note sequence given to the filter alone
MaxFilterNotes == 3

\* durations around the filter's threshold: 0, just below 0.125, 0.125, 0.25
FilterDurations == {0, MinDuration - 1, MinDuration, Quarter}

\* pitched notes and silence notes
FilterNotes ==
    {Note(k[1], k[2], d, 0) :
        k \in {<<"v", 44000>>, <<" ", 0>>}, d \in FilterDurations}

FilterInputs == UNION {[1..n -> FilterNotes] : n \in 0..MaxFilterNotes}

MergeIdle ==
    /\ notes = <<>>
    /\ merged = <<>>
    /\ remerged = <<>>
    /\ merge_pc = "idle"
    /\ filtered = <<>>

(* ---------------------------------------------------------------------- *)
(* The basic AudioAnalyzer (audio_analyzer.py): key round trip             *)
(* ---------------------------------------------------------------------- *)

\* the keys of frontend_mapping in insertion order
FrontendKeys ==
    <<"q", "w", "e", "r", "t", "y", "u", "i", "o", "p",
      "a", "s", "d", "f", "g", "h", "j", "k", "l", "z",
      "x", "c", "v", "b", "n", "m", "1", "2", "3", "4",
      "5", "6", "7", "8", "9", "0", " ">>

\* the values of frontend_mapping, in the order of FrontendKeys
FrontendFreqs ==
    <<26163, 29366, 32963, 34923, 39200, 44000, 49388, 52325, 58733, 65925,
      13081, 14683, 16481, 17461, 19600, 22000, 24694, 26163, 29366, 32963,
      34923, 39200, 44000, 49388, 52325, 58733, 6541, 7342, 8241, 8731,
      9800, 11000, 12347, 13081, 14683, 16481, 0>>

frontend_mapping ==
    [k \in {FrontendKeys[n] : n \in 1..Len(FrontendKeys)} |->
        FrontendFreqs[CHOOSE n \in 1..Len(FrontendKeys) : FrontendKeys[n] = k]]

\* the dictionary self.frequency_to_key built by __init__: each frequency
\* above 0 is assigned the key of its last entry in insertion order
frequency_to_key_dict ==
    [f \in {FrontendFreqs[n] : n \in 1..Len(FrontendFreqs)} \ {0} |->
        FrontendKeys[CHOOSE n \in 1..Len(FrontendFreqs) :
                        /\ FrontendFreqs[n] = f
                        /\ \A m \in (n + 1)..Len(FrontendFreqs) :
                              FrontendFreqs[m] # f]]

\* the names __init__ binds on the instance
InstanceAttributes ==
    {"frontend_mapping", "frequency_to_key", "available_frequencies",
     "midi_to_freq_map", "hop_length", "frame_size", "sample_rate"}

\* what analyzer.name is: a name bound on the instance hides the method of
\* the class with the same name; AudioAnalyzer.name is the method
Resolve(via, name) ==
    IF via = "instance" /\ name \in InstanceAttributes
    THEN "attribute"
    ELSE "method"

\* the sorted frequencies of the table
BasicFrequencies == DOMAIN frequency_to_key_dict

\* quantize_to_frontend_frequencies: min(available_frequencies,
\* key = abs(x - frequency)), the first minimum of the sorted list
quantize_to_frontend_frequencies(f) ==
    IF f <= 0 THEN 0
    ELSE CHOOSE x \in BasicFrequencies :
            /\ \A y \in BasicFrequencies :
                  Max2(x - f, f - x) <= Max2(y - f, f - y)
            /\ \A y \in BasicFrequencies :
                  Max2(y - f, f - y) = Max2(x - f, f - x) => x <= y

\* the body of the method frequency_to_key
frequency_to_key_method(f) ==
    IF f <= 0 THEN " "
    ELSE LET quantized_freq == quantize_to_frontend_frequencies(f)
         IN  IF quantized_freq \in DOMAIN frequency_to_key_dict
             THEN frequency_to_key_dict[quantized_freq]
             ELSE "a"

\* get_frequency_from_key: frontend_mapping.get(key, 0.0)
get_frequency_from_key(key) ==
    IF key \in DOMAIN frontend_mapping THEN frontend_mapping[key] ELSE 0

\* the frequencies of the round trip: the table, neighbours half a hertz
\* away, zero and a negative value
RoundTripFrequencies ==
    {f + d : f \in BasicFrequencies, d \in {-50, 0, 50}} \cup {0, -100}

RoundTripIdle ==
    /\ rt_freq = 0
    /\ rt_via = "none"
    /\ rt_key = "unset"
    /\ rt_recovered = Unset
    /\ rt_pc = "idle"

(* ---------------------------------------------------------------------- *)
(* The wall-clock cap of the frame loop                                    *)
(* ---------------------------------------------------------------------- *)

\* "if i % 500 == 0"
CheckEvery == 500

\* timeout_seconds
timeout_seconds == 120

\* "(current_time - last_progress_time) > 30"
NoProgressSeconds == 30

\* len(times) of the stream under the cap
TotalCapFrames == 1001

\* the clock stops advancing here
MaxNow == 130

\* the frames whose processing can take long, and how long (seconds)
SlowFrames == {0, 1, 250, 499, 500, 501, 750, 999, 1000}
SlowSeconds == {25, 35}

\* a test that looks at the frame index only every 2000 frames
TestDue_Every2000(i, now, last) ==
    i % 2000 = 0 \/ (now - last) > NoProgressSeconds

\* "i % 500 == 0 or (current_time - last_progress_time) > 30"
TestDue(i, now, last) ==
    i % CheckEvery = 0 \/ (now - last) > NoProgressSeconds

CapIdle ==
    /\ cap_i = 0
    /\ cap_now = 0
    /\ cap_last = 0
    /\ cap_over = 0
    /\ cap_pc = "idle"

(* ---------------------------------------------------------------------- *)
(* The tempo stage on its own                                              *)
(* ---------------------------------------------------------------------- *)

\* the estimates of beat_track: around both ends of the accepted range
LowEstimate == 55
HighEstimate == 205
TrackerEstimates == {0} \cup (LowEstimate..HighEstimate)

\* the client's bpm_hint
TrackerHints == {0, 90, 120}

TempoIdle ==
    /\ bt_estimate = NoEstimate
    /\ bt_hint = 120
    /\ bt_tempo = NoTempo
    /\ bt_min_frames = 0
    /\ bt_result = NoTempo
    /\ bt_pc = "idle"

(* ---------------------------------------------------------------------- *)
(* Specification                                                           *)
(* ---------------------------------------------------------------------- *)

JobsInit ==
    /\ progress_store = [j \in JobIds |-> NoJob]
    /\ progress_lock = "free"
    /\ hpc = [j \in JobIds |-> "idle"]
    /\ hint = [j \in JobIds |-> 120]
    /\ tphase = [j \in JobIds |-> "none"]
    /\ tstep = [j \in JobIds |-> 0]
    /\ tframe = [j \in JobIds |-> 0]
    /\ tempo = [j \in JobIds |-> NoTempo]
    /\ terr = [j \in JobIds |-> "none"]
    /\ calls = [j \in JobIds |-> [c \in Collaborators |-> 0]]
    /\ spc = "idle"
    /\ sjob = "none"
    /\ ssnap = "none"
    /\ events = <<>>
    /\ resp = NoResp

Init ==
    /\ JobsInit
    /\ TempoIdle
    /\ CapIdle
    /\ RoundTripIdle
    /\ QuantIdle
    /\ SegIdle
    /\ MergeIdle

Pipeline(j) ==
    \/ Update(j)
    \/ Call(j)
    \/ CallRaise(j)
    \/ CallFatal(j)
    \/ TempoCall(j)
    \/ FrameChunk(j)
    \/ FrameTimeout(j)
    \/ Complete(j)
    \/ Except(j)
    \/ Finally(j)

Handler(j) ==
    \/ SubmitCreate(j)
    \/ SubmitStart(j)
    \/ SubmitStartFail(j)
    \/ SubmitStoreThread(j)
    \/ SubmitExcept(j)

Stream ==
    \/ \E id \in JobIds : StreamOpen(id)
    \/ StreamCheck
    \/ StreamResumeUpdate
    \/ StreamResumeFinal
    \/ StreamResumeError

Requests ==
    \/ SubmitReject
    \/ \E id \in JobIds : GetProgressJson(id)
    \/ \E id \in JobIds : GetResult(id)
    \/ DebugCleanup

Next ==
    \/ \E j \in JobIds : Handler(j)
    \/ \E j \in JobIds : Pipeline(j)
    \/ Stream
    \/ Requests

Spec == Init /\ [][Next]_vars

\* the threads are scheduled fairly: a thread waiting for the lock gets it,
\* a paused generator is resumed, the handler runs on
FairSpec ==
    /\ Spec
    /\ \A j \in JobIds : SF_vars(Pipeline(j))
    /\ \A j \in JobIds : SF_vars(Handler(j))
    /\ WF_vars(StreamResumeUpdate)
    /\ WF_vars(StreamResumeFinal)
    /\ WF_vars(StreamResumeError)

\* two jobs after both submissions returned: records created, threads
\* started, handles stored
TwoJobsInit ==
    /\ TempoIdle
    /\ CapIdle
    /\ RoundTripIdle
    /\ QuantIdle
    /\ SegIdle
    /\ MergeIdle
    /\ progress_store = [j \in JobIds |-> [NewJob EXCEPT !.thread = TRUE]]
    /\ progress_lock = "free"
    /\ hpc = [j \in JobIds |-> "returned 200"]
    /\ hint = [j \in JobIds |-> 120]
    /\ tphase = [j \in JobIds |-> "analyze"]
    /\ tstep = [j \in JobIds |-> 1]
    /\ tframe = [j \in JobIds |-> 0]
    /\ tempo = [j \in JobIds |-> NoTempo]
    /\ terr = [j \in JobIds |-> "none"]
    /\ calls = [j \in JobIds |-> [c \in Collaborators |-> 0]]
    /\ spc = "idle"
    /\ sjob = "none"
    /\ ssnap = "none"
    /\ events = <<>>
    /\ resp = NoResp

\* the two threads, cleanup requests and analyzer runs outside the registry
TwoJobsNext ==
    \/ \E j \in JobIds : Pipeline(j)
    \/ DebugCleanup
    \/ UpdateUnregistered

TwoJobsSpec == TwoJobsInit /\ [][TwoJobsNext]_vars

\* the quantizer applied to one frequency
QuantInit ==
    /\ JobsInit
    /\ TempoIdle
    /\ CapIdle
    /\ RoundTripIdle
    /\ SegIdle
    /\ MergeIdle
    /\ frequency \in Frequencies
    /\ snapped = Unset
    /\ resnapped = Unset
    /\ symbol = "unset"

Snap ==
    /\ snapped = Unset
    /\ snapped' = snap_to_pentatonic(frequency)
    /\ UNCHANGED <<jvars, gvars, mvars, rvars, cvars, evars, frequency, resnapped, symbol>>

SnapAgain ==
    /\ snapped # Unset
    /\ resnapped = Unset
    /\ resnapped' = snap_to_pentatonic(Fin(snapped))
    /\ UNCHANGED <<jvars, gvars, mvars, rvars, cvars, evars, frequency, snapped, symbol>>

ToKey ==
    /\ symbol = "unset"
    /\ symbol' = frequency_to_key(frequency)
    /\ UNCHANGED <<jvars, gvars, mvars, rvars, cvars, evars, frequency, snapped, resnapped>>

QuantNext ==
    \/ Snap
    \/ SnapAgain
    \/ ToKey

QuantSpec == QuantInit /\ [][QuantNext]_vars

\* the segmentation loop applied to one frame stream at one tempo
SegInit ==
    /\ JobsInit
    /\ TempoIdle
    /\ CapIdle
    /\ RoundTripIdle
    /\ QuantIdle
    /\ MergeIdle
    /\ frames \in Streams
    /\ bpm \in Tempos
    /\ frame_i = 0
    /\ sequence = <<>>
    /\ current_freq = None
    /\ current_start_time = None
    /\ current_frame_count = 0
    /\ seg_pc = "loop"
    /\ frame_errors = 0
    /\ after_merge = <<>>
    /\ result_sequence = <<>>

\* a voiced frame that leaves the start time of the open note alone at a
\* note boundary
VoicedFrame_KeepsStartTime ==
    /\ seg_pc = "loop"
    /\ frame_i < TotalLen(frames)
    /\ LET fr == FrameAt(frames, frame_i)
           quantized_freq == Quantized[fr.freq]
       IN  /\ Accepted(fr)
           /\ IF /\ current_freq # None
                 /\ quantized_freq > 0
                 /\ is_same_note(quantized_freq, current_freq)
              THEN /\ current_frame_count' = current_frame_count + 1
                   /\ UNCHANGED <<sequence, current_freq, current_start_time>>
              ELSE /\ sequence' = IF LongEnough(bpm)
                                  THEN Append(sequence, OpenNote(bpm))
                                  ELSE sequence
                   /\ current_freq' = quantized_freq
                   /\ current_start_time' =
                         IF current_freq = None
                         THEN frame_i * hop_length
                         ELSE current_start_time
                   /\ current_frame_count' = 1
    /\ frame_i' = frame_i + 1
    /\ UNCHANGED <<jvars, qvars, mvars, rvars, cvars, evars, frames, bpm, seg_pc, frame_errors,
                   postvars>>

\* one iteration of the loop on a frame with freq > 0 and a confidence
\* above the threshold
VoicedFrame ==
    /\ seg_pc = "loop"
    /\ frame_i < TotalLen(frames)
    /\ LET fr == FrameAt(frames, frame_i)
           time == frame_i * hop_length
           quantized_freq == Quantized[fr.freq]
       IN  /\ Accepted(fr)
           /\ IF /\ current_freq # None
                 /\ quantized_freq > 0
                 /\ is_same_note(quantized_freq, current_freq)
              THEN /\ current_frame_count' = current_frame_count + 1
                   /\ UNCHANGED <<sequence, current_freq, current_start_time>>
              ELSE /\ sequence' = IF LongEnough(bpm)
                                  THEN Append(sequence, OpenNote(bpm))
                                  ELSE sequence
                   /\ current_freq' = quantized_freq
                   /\ current_start_time' = time
                   /\ current_frame_count' = 1
    /\ frame_i' = frame_i + 1
    /\ UNCHANGED <<jvars, qvars, mvars, rvars, cvars, evars, frames, bpm, seg_pc, frame_errors,
                   postvars>>

\* one iteration of the loop on an unvoiced or low-confidence frame
UnvoicedFrame ==
    /\ seg_pc = "loop"
    /\ frame_i < TotalLen(frames)
    /\ LET fr == FrameAt(frames, frame_i)
           time == frame_i * hop_length
       IN  /\ Rejected(fr)
           /\ sequence' = Unvoiced(time, bpm)
    /\ current_freq' = None
    /\ current_frame_count' = 0
    /\ frame_i' = frame_i + 1
    /\ UNCHANGED <<jvars, qvars, mvars, rvars, cvars, evars, frames, bpm, current_start_time,
                   seg_pc, frame_errors, postvars>>

\* "Handle final note", after the loop
FinalNote ==
    /\ seg_pc = "loop"
    /\ frame_i = TotalLen(frames)
    /\ sequence' = IF LongEnough(bpm)
                   THEN Append(sequence, OpenNote(bpm))
                   ELSE sequence
    /\ seg_pc' = "done"
    /\ UNCHANGED <<jvars, qvars, mvars, rvars, cvars, evars, frames, bpm, frame_i, current_freq,
                   current_start_time, current_frame_count, frame_errors,
                   postvars>>

\* a frame error that also drops the open note
FrameError_DropsOpenNote ==
    /\ seg_pc = "loop"
    /\ frame_i < TotalLen(frames)
    /\ Raises(FrameAt(frames, frame_i))
    /\ frame_errors' = frame_errors + 1
    /\ frame_i' = frame_i + 1
    /\ current_freq' = None
    /\ current_frame_count' = 0
    /\ UNCHANGED <<jvars, qvars, mvars, rvars, cvars, evars, frames, bpm, sequence,
                   current_start_time, seg_pc, postvars>>

\* the frame's processing raises: frame_errors += 1, continue
FrameError ==
    /\ seg_pc = "loop"
    /\ frame_i < TotalLen(frames)
    /\ Raises(FrameAt(frames, frame_i))
    /\ frame_errors' = frame_errors + 1
    /\ frame_i' = frame_i + 1
    /\ UNCHANGED <<jvars, qvars, mvars, rvars, cvars, evars, frames, bpm, sequence, current_freq,
                   current_start_time, current_frame_count, seg_pc, postvars>>

\* "sequence = self.merge_consecutive_notes(sequence)"
PostMerge ==
    /\ seg_pc = "done"
    /\ after_merge' = merge_consecutive_notes(Numbers(sequence))
    /\ seg_pc' = "merged"
    /\ UNCHANGED <<jvars, qvars, mvars, rvars, cvars, evars, frames, bpm, frame_i, sequence,
                   current_freq, current_start_time, current_frame_count,
                   frame_errors, result_sequence>>

\* "sequence = [note for note in sequence if note['duration'] >= 0.125]"
PostFilter ==
    /\ seg_pc = "merged"
    /\ result_sequence' = filter_short_notes(after_merge)
    /\ seg_pc' = "result"
    /\ UNCHANGED <<jvars, qvars, mvars, rvars, cvars, evars, frames, bpm, frame_i, sequence,
                   current_freq, current_start_time, current_frame_count,
                   frame_errors, after_merge>>

SegNext ==
    \/ VoicedFrame
    \/ UnvoicedFrame
    \/ FrameError
    \/ FinalNote
    \/ PostMerge
    \/ PostFilter

SegSpec == SegInit /\ [][SegNext]_vars

\* the merge pass applied to one note sequence, and to its own output
MergeInit ==
    /\ JobsInit
    /\ TempoIdle
    /\ CapIdle
    /\ RoundTripIdle
    /\ QuantIdle
    /\ SegIdle
    /\ notes \in Sequences
    /\ merged = <<>>
    /\ remerged = <<>>
    /\ merge_pc = "input"
    /\ filtered = <<>>

Merge ==
    /\ merge_pc = "input"
    /\ merged' = merge_consecutive_notes(notes)
    /\ merge_pc' = "merged"
    /\ UNCHANGED <<jvars, qvars, gvars, rvars, cvars, evars, notes, remerged, filtered>>

MergeAgain ==
    /\ merge_pc = "merged"
    /\ remerged' = merge_consecutive_notes(merged)
    /\ merge_pc' = "remerged"
    /\ UNCHANGED <<jvars, qvars, gvars, rvars, cvars, evars, notes, merged, filtered>>

MergeNext ==
    \/ Merge
    \/ MergeAgain

MergeSpec == MergeInit /\ [][MergeNext]_vars

\* the duration filter applied to one sequence
FilterInit ==
    /\ JobsInit
    /\ TempoIdle
    /\ CapIdle
    /\ RoundTripIdle
    /\ QuantIdle
    /\ SegIdle
    /\ notes = <<>>
    /\ merged \in FilterInputs
    /\ remerged = <<>>
    /\ merge_pc = "merged"
    /\ filtered = <<>>

Filter ==
    /\ merge_pc = "merged"
    /\ filtered' = filter_short_notes(merged)
    /\ merge_pc' = "filtered"
    /\ UNCHANGED <<jvars, qvars, gvars, rvars, cvars, evars, notes, merged, remerged>>

FilterSpec == FilterInit /\ [][Filter]_vars

\* test_round_trip on one frequency, with frequency_to_key looked up on
\* the instance (analyzer.frequency_to_key) or on the class
RoundTripInit ==
    /\ JobsInit
    /\ TempoIdle
    /\ CapIdle
    /\ QuantIdle
    /\ SegIdle
    /\ MergeIdle
    /\ rt_freq \in RoundTripFrequencies
    /\ rt_via \in {"instance", "class"}
    /\ rt_key = "unset"
    /\ rt_recovered = Unset
    /\ rt_pc = "start"

\* "key = analyzer.frequency_to_key(original_freq)" where the name is the
\* method
CallFrequencyToKey ==
    /\ rt_pc = "start"
    /\ Resolve(rt_via, "frequency_to_key") = "method"
    /\ rt_key' = frequency_to_key_method(rt_freq)
    /\ rt_pc' = "keyed"
    /\ UNCHANGED <<jvars, qvars, gvars, mvars, cvars, evars, rt_freq, rt_via, rt_recovered>>

\* the same call where the name is the dictionary: calling a dict raises
\* TypeError
CallDictRaises ==
    /\ rt_pc = "start"
    /\ Resolve(rt_via, "frequency_to_key") = "attribute"
    /\ rt_pc' = "raised"
    /\ UNCHANGED <<jvars, qvars, gvars, mvars, cvars, evars, rt_freq, rt_via, rt_key,
                   rt_recovered>>

\* "recovered_freq = analyzer.get_frequency_from_key(key)"
CallGetFrequencyFromKey ==
    /\ rt_pc = "keyed"
    /\ rt_recovered' = get_frequency_from_key(rt_key)
    /\ rt_pc' = "recovered"
    /\ UNCHANGED <<jvars, qvars, gvars, mvars, cvars, evars, rt_freq, rt_via, rt_key>>

RoundTripNext ==
    \/ CallFrequencyToKey
    \/ CallDictRaises
    \/ CallGetFrequencyFromKey

RoundTripSpec == RoundTripInit /\ [][RoundTripNext]_vars

\* the frame loop of one stream, seen by its clock
CapInit ==
    /\ JobsInit
    /\ TempoIdle
    /\ RoundTripIdle
    /\ QuantIdle
    /\ SegIdle
    /\ MergeIdle
    /\ cap_i = 0
    /\ cap_now = 0
    /\ cap_last = 0
    /\ cap_over = 0
    /\ cap_pc = "loop"

\* one iteration that does not break: the clock is read, the cap is tested
\* when a test is due, the frame is processed, and time passes meanwhile
CapFrame ==
    /\ cap_pc = "loop"
    /\ cap_i < TotalCapFrames
    /\ ~(TestDue(cap_i, cap_now, cap_last) /\ cap_now > timeout_seconds)
    /\ cap_last' = IF TestDue(cap_i, cap_now, cap_last)
                   THEN cap_now
                   ELSE cap_last
    /\ cap_over' = IF cap_now > timeout_seconds
                   THEN cap_over + 1
                   ELSE cap_over
    /\ cap_i' = cap_i + 1
    /\ \E d \in {0} \cup (IF cap_i \in SlowFrames THEN SlowSeconds ELSE {}) :
         /\ cap_now + d <= MaxNow
         /\ cap_now' = cap_now + d
    /\ UNCHANGED <<jvars, qvars, gvars, mvars, rvars, evars, cap_pc>>

\* a due test finds the cap exceeded: break
CapBreak ==
    /\ cap_pc = "loop"
    /\ cap_i < TotalCapFrames
    /\ TestDue(cap_i, cap_now, cap_last)
    /\ cap_now > timeout_seconds
    /\ cap_pc' = "timeout"
    /\ UNCHANGED <<jvars, qvars, gvars, mvars, rvars, evars, cap_i, cap_now, cap_last,
                   cap_over>>

\* the stream is exhausted
CapEnd ==
    /\ cap_pc = "loop"
    /\ cap_i = TotalCapFrames
    /\ cap_pc' = "end"
    /\ UNCHANGED <<jvars, qvars, gvars, mvars, rvars, evars, cap_i, cap_now, cap_last,
                   cap_over>>

CapNext ==
    \/ CapFrame
    \/ CapBreak
    \/ CapEnd

CapSpec == CapInit /\ [][CapNext]_vars

\* the tempo stage for one estimate (or a failing tracker) and one hint
TempoInit ==
    /\ JobsInit
    /\ CapIdle
    /\ RoundTripIdle
    /\ QuantIdle
    /\ SegIdle
    /\ MergeIdle
    /\ bt_estimate \in TrackerEstimates \cup {NoEstimate}
    /\ bt_hint \in TrackerHints
    /\ bt_tempo = NoTempo
    /\ bt_min_frames = 0
    /\ bt_result = NoTempo
    /\ bt_pc = "start"

\* beat_track returns and the tempo is selected
TrackTempo ==
    /\ bt_pc = "start"
    /\ bt_estimate # NoEstimate
    /\ bt_tempo' = SelectTempo(bt_estimate, bt_hint)
    /\ bt_pc' = "selected"
    /\ UNCHANGED <<jvars, qvars, gvars, mvars, rvars, cvars, bt_estimate,
                   bt_hint, bt_min_frames, bt_result>>

\* beat_track raises: the except clause takes the hint
TrackTempoFails ==
    /\ bt_pc = "start"
    /\ bt_estimate = NoEstimate
    /\ bt_tempo' = FallbackTempo(bt_hint)
    /\ bt_pc' = "selected"
    /\ UNCHANGED <<jvars, qvars, gvars, mvars, rvars, cvars, bt_estimate,
                   bt_hint, bt_min_frames, bt_result>>

\* min_note_duration_sec and min_frames; a tempo of 0 raises
\* ZeroDivisionError
MinFrames ==
    /\ bt_pc = "selected"
    /\ IF bt_tempo.bpm = 0
       THEN /\ bt_pc' = "raised"
            /\ UNCHANGED bt_min_frames
       ELSE /\ bt_pc' = "ready"
            /\ bt_min_frames' = min_frames(bt_tempo.bpm)
    /\ UNCHANGED <<jvars, qvars, gvars, mvars, rvars, cvars, bt_estimate,
                   bt_hint, bt_tempo, bt_result>>

\* "detected_tempo": float(tempo), "tempo_source": tempo_source
ReportTempo ==
    /\ bt_pc = "ready"
    /\ bt_result' = bt_tempo
    /\ bt_pc' = "reported"
    /\ UNCHANGED <<jvars, qvars, gvars, mvars, rvars, cvars, bt_estimate,
                   bt_hint, bt_tempo, bt_min_frames>>

TempoNext ==
    \/ TrackTempo
    \/ TrackTempoFails
    \/ MinFrames
    \/ ReportTempo

TempoSpec == TempoInit /\ [][TempoNext]_vars

(* ---------------------------------------------------------------------- *)
(* Properties                                                              *)
(* ---------------------------------------------------------------------- *)

StatusStep(j) == <<progress_store[j].status, progress_store'[j].status>>

\* C1 (as stated): a job's status starts as starting and moves only along
\* starting -> running -> {completed, failed}; a terminal status is never
\* changed until the job is removed.
C1_StartingRunningTerminal ==
    [][\A j \in JobIds :
          progress_store'[j].status # progress_store[j].status =>
              StatusStep(j) \in {<<"absent", "starting">>,
                                 <<"starting", "running">>,
                                 <<"running", "completed">>,
                                 <<"running", "failed">>,
                                 <<"completed", "absent">>,
                                 <<"failed", "absent">>}]_vars

\* C1 (amended): the registry never holds starting; a job's status is
\* running from its creation, moves only running -> {completed, failed},
\* and a terminal status is never changed until the job is removed, after
\* which the id does not come back.
C1_RunningThenTerminalOnce ==
    [][\A j \in JobIds :
          /\ progress_store'[j].status # progress_store[j].status =>
                StatusStep(j) \in {<<"absent", "running">>,
                                   <<"running", "completed">>,
                                   <<"running", "failed">>,
                                   <<"completed", "absent">>,
                                   <<"failed", "absent">>}
          /\ (progress_store[j].status = "absent" /\ hpc[j] # "idle") =>
                progress_store'[j].status = "absent"]_vars

C1_Witness ==
    /\ progress_store["j1"].status = "completed"
    /\ tphase["j1"] = "done"
    /\ hpc["j1"] = "returned 200"

\* C2: once run_analysis has finished, by whichever path, the job's record
\* (if still in the registry) is completed or failed; the finally block
\* turns a record it finds running into failed with the "terminated
\* unexpectedly" message and progress 100.
C2_FinishedIsTerminal ==
    /\ [](\A j \in JobIds :
            (tphase[j] = "done" /\ Present(progress_store, j)) =>
                Terminal(progress_store[j].status))
    /\ [][\A j \in JobIds :
            (/\ tphase[j] = "finally"
             /\ tphase'[j] = "done"
             /\ progress_store[j].status = "running") =>
                /\ progress_store'[j].status = "failed"
                /\ progress_store'[j].message =
                       Msg("Analysis terminated unexpectedly", "none")
                /\ progress_store'[j].progress = 100]_vars

C2_Witness ==
    /\ tphase["j1"] = "done"
    /\ progress_store["j1"].status = "failed"
    /\ progress_store["j1"].message =
           Msg("Analysis terminated unexpectedly", "none")

\* C3: under fair scheduling, a job whose thread runs while its status is
\* running eventually has status completed or failed.
C3_EventuallyTerminal ==
    \A j \in JobIds :
        (ThreadAlive(j) /\ progress_store[j].status = "running")
            ~> Terminal(progress_store[j].status)

C3_Witness ==
    /\ tphase["j1"] = "done"
    /\ Terminal(progress_store["j1"].status)
    /\ spc = "closed"
    /\ sjob = "j1"
    /\ events[1] = "running"

TerminalEvents(ev) == {k \in 1..Len(ev) : Terminal(ev[k])}

\* C4 (as stated): a stream that observed the job and closed has exactly
\* one event with a terminal status, and it is the last event.
C4_OneTerminalEvent ==
    (spc = "closed" /\ events[Len(events)] # "error") =>
        /\ Cardinality(TerminalEvents(events)) = 1
        /\ Terminal(events[Len(events)])

\* C4 (amended): a stream emits running snapshots until it first observes a
\* terminal status (or finds the job gone); it then emits the terminal
\* snapshot twice, as the progress update and as the final update, and
\* closes: the terminal events are exactly the last two and are equal.
C4_TerminalSnapshotTwice ==
    LET n == Len(events) IN
    /\ \A k \in 1..n : Terminal(events[k]) => k >= n - 1
    /\ \A k \in 1..n : events[k] = "error" => k = n
    /\ (spc = "closed" /\ events[n] # "error") =>
          /\ n >= 2
          /\ Terminal(events[n])
          /\ events[n - 1] = events[n]
          /\ \A k \in 1..(n - 2) : events[k] = "running"
    /\ (n > 0 /\ Terminal(events[n])) =>
          spc \in {"yield update", "yield final", "closed"}

C4_Witness ==
    /\ spc = "closed"
    /\ Len(events) = 3
    /\ events[1] = "running"
    /\ events[3] = "completed"

\* C5: a stream that found the job in the registry emits a snapshot with
\* the job's terminal status before it closes, never a "Job not found"
\* error event in its place.
C5_StreamEndsWithTerminal ==
    (spc = "closed" /\ events[1] # "error") =>
        /\ events[Len(events)] # "error"
        /\ TerminalEvents(events) # {}

\* C6: a stream whose first look finds the job id absent yields the
\* not-found error event as its only event and then closes.
C6_UnknownJobOneError ==
    /\ []((events # <<>> /\ events[1] = "error") =>
             /\ events = <<"error">>
             /\ spc \in {"yield error", "closed"})
    /\ [][/\ (spc = "check" /\ events = <<>> /\ spc' # "check"
                 /\ ~Present(progress_store, sjob)) =>
                (events' = <<"error">> /\ spc' = "yield error")
          /\ spc = "yield error" =>
                (spc' \in {"yield error", "closed"} /\ events' = events)
          /\ spc = "closed" => (spc' = "closed" /\ events' = events)]_vars

C6_Witness ==
    /\ spc = "closed"
    /\ events = <<"error">>
    /\ sjob = "j2"

\* C7: whenever the stream generator is paused at a yield, the registry
\* lock is free.
C7_LockFreeAtYield ==
    spc \in {"yield update", "yield final", "yield error"} =>
        progress_lock = "free"

\* C8: fetch result for a job in the registry answers by the job's status:
\* 200 with the result when completed, 500 with the failure message when
\* failed, 202 "not complete" when running; a completed job has a result.
C8_ResultByStatus ==
    /\ \A j \in JobIds :
          progress_store[j].status = "completed" => progress_store[j].result
    /\ (resp.op = "result" /\ Present(progress_store, resp.id)) =>
          LET job == progress_store[resp.id] IN
          /\ job.status = "completed" =>
                (resp.code = 200 /\ resp.body = "result")
          /\ job.status = "failed" =>
                (resp.code = 500 /\ resp.body = "error"
                   /\ resp.message = job.message)
          /\ job.status = "running" =>
                (resp.code = 202 /\ resp.body = "Analysis not complete")

C8_Witness ==
    /\ resp.op = "result"
    /\ resp.code = 200
    /\ progress_store[resp.id].status = "completed"

\* C9: poll and fetch-result for an id absent from the registry answer 404
\* "Job not found", never failed, and leave the registry without the id.
C9_UnknownIdNotFound ==
    [][\A id \in JobIds :
          (resp'.op \in {"progress", "result"} /\ resp'.id = id
             /\ ~Present(progress_store, id)) =>
                /\ resp'.code = 404
                /\ resp'.body = "Job not found"
                /\ resp'.status # "failed"
                /\ progress_store' = progress_store]_vars

C9_Witness ==
    /\ resp.op = "result"
    /\ resp.code = 404
    /\ hpc["j1"] = "returned 200"
    /\ resp.id = "j1"

\* the collaborator whose call raised an error in job j, if any
Raised(j) ==
    IF terr[j] \in Collaborators THEN terr[j]
    ELSE IF tempo[j].source = "BPM hint (beat tracking failed)" THEN "tempo"
    ELSE "none"

LaterCalls(j, c) ==
    {d \in Collaborators : StepOf(d) > StepOf(c) /\ calls[j][d] > 0}

\* what holds of job j after collaborator c raised and failed the job
FailedBy(j, c) ==
    /\ LaterCalls(j, c) = {}
    /\ tphase[j] \in {"except", "finally", "done"}
    /\ (tphase[j] \in {"finally", "done"} /\ Present(progress_store, j)) =>
          /\ progress_store[j].status = "failed"
          /\ progress_store[j].message = Msg("Analysis failed", c)

\* C10 (as stated): when the collaborator of any stage raises, the job
\* becomes failed with that error's message, no later stage runs, and no
\* collaborator is invoked twice.
C10_AnyStageErrorFails ==
    \A j \in JobIds :
        /\ \A c \in Collaborators : calls[j][c] <= 1
        /\ Raised(j) # "none" => FailedBy(j, Raised(j))

\* C10 (amended): that holds for load, stem separation, lead selection and
\* pitch detection; an Exception of the tempo tracker is caught inside the
\* stage, the tempo becomes the bpm hint and the job never fails with the
\* tracker's message; no collaborator is invoked twice.
C10_StageErrorFailsExceptTempo ==
    \A j \in JobIds :
        /\ \A c \in Collaborators : calls[j][c] <= 1
        /\ Raised(j) \in Collaborators \ {"tempo"} => FailedBy(j, Raised(j))
        /\ Raised(j) = "tempo" =>
              /\ tempo[j].bpm = hint[j]
              /\ progress_store[j].message # Msg("Analysis failed", "tempo")

C10_Witness ==
    /\ terr["j1"] = "separate"
    /\ tphase["j1"] = "done"
    /\ progress_store["j1"].status = "failed"
    /\ calls["j1"]["separate"] = 1

\* the four ways an upload fails validation
InvalidUpload(u) ==
    \/ ~u.file
    \/ u.filename.empty
    \/ u.filename.ext = "none"
    \/ Lower(u.filename.ext) \notin ALLOWED_EXTENSIONS
    \/ u.size > MAX_FILE_SIZE

ValidationErrors ==
    {"No file provided", "No file selected", "Unsupported file type",
     "File too large"}

\* C11: a submission that fails validation (no file part, empty file name,
\* extension not allowed, more than 16 MB) is answered with a 400 error in
\* the same step and changes neither the registry nor any thread or
\* handler position.
C11_RejectedLeavesRegistry ==
    /\ [](\A u \in Uploads : InvalidUpload(u) => validate(u) \in ValidationErrors)
    /\ [][resp'.op = "analyze" =>
            /\ resp'.body \in ValidationErrors => resp'.code = 400
            /\ progress_store' = progress_store
            /\ tphase' = tphase
            /\ hpc' = hpc]_vars

C11_Witness ==
    /\ resp.op = "analyze"
    /\ resp.code = 400
    /\ resp.body = "File too large"
    /\ progress_store["j1"].status = "running"

\* the jobs a step removes from the registry
Removed == {j \in JobIds : Present(progress_store, j) /\ ~Present(progress_store', j)}

\* C12: a step removes a job only if the job's status is completed or failed
\* and its background thread has ended; no job whose thread is still alive
\* is ever removed, under every interleaving of submit, thread and cleanup.
C12_RemovedOnlyAfterThreadEnd ==
    [][\A j \in Removed :
          /\ Terminal(progress_store[j].status)
          /\ ~ThreadAlive(j)]_vars

\* C13: a cleanup step leaves every job whose status is running in the
\* registry, unmodified, changes no job that it keeps, and is idempotent:
\* right after it no job is left to remove, so a second cleanup removes
\* nothing and leaves the registry identical.
C13_CleanupKeepsRunningIdempotent ==
    [][resp'.op = "cleanup" =>
          /\ \A j \in JobIds :
                (Present(progress_store, j) /\ progress_store[j].status = "running")
                    => progress_store'[j] = progress_store[j]
          /\ \A j \in JobIds :
                Present(progress_store', j) => progress_store'[j] = progress_store[j]
          /\ jobs_to_remove' = {}
          /\ resp'.cleaned = Cardinality(Removed)]_vars

\* a cleanup has just removed a finished job
C13_Witness ==
    /\ resp.op = "cleanup"
    /\ resp.cleaned = 1
    /\ ~Present(progress_store, "j1")
    /\ tphase["j1"] = "done"

\* C14: once the frame loop has stopped on its wall-clock cap, the job is
\* not failed by it and goes on to completed with a result, and the timeout
\* stays recorded in the job's debug info: no later step of the pipeline
\* that keeps the job running or completes it replaces the timeout record.
C14_TimeoutStaysRecorded ==
    [][\A j \in JobIds :
          (/\ progress_store[j].debug = "timeout"
           /\ progress_store[j].status = "running"
           /\ progress_store'[j].status \in {"running", "completed"})
              => /\ progress_store'[j].debug = "timeout"
                 /\ progress_store'[j].status = "completed"
                        => progress_store'[j].result]_vars

TableFrequencies == {available_frequencies[k] : k \in 1..Len(available_frequencies)}

\* a finite frequency above zero
ValidHz(x) == x.kind = "finite" /\ x.v > 0

\* C15: for every finite frequency f > 0, also below 20 Hz and above
\* 8000 Hz, snap_to_pentatonic(f) is one of the 24 frequencies of the key
\* table.
C15_SnapInKeyTable ==
    /\ Cardinality(TableFrequencies) = 24
    /\ (ValidHz(frequency) /\ snapped # Unset) => snapped \in TableFrequencies

\* an input above the clamp has been quantized to the highest pentatonic note
C15_Witness ==
    /\ frequency = Fin(ClampHigh + 1)
    /\ snapped = 65925

\* C16: quantization is idempotent: for every finite frequency f > 0,
\* snap_to_pentatonic(snap_to_pentatonic(f)) = snap_to_pentatonic(f).
C16_SnapIdempotent ==
    (ValidHz(frequency) /\ resnapped # Unset) => resnapped = snapped

\* 138.59 Hz, just above the boundary between 130.81 and 146.83, was
\* quantized twice
C16_Witness ==
    /\ frequency = Fin(13859)
    /\ snapped = 14683
    /\ resnapped = 14683

\* C17: for every input that is zero, negative or not finite,
\* snap_to_pentatonic returns 0 and frequency_to_key returns the space.
C17_InvalidGivesZeroAndSpace ==
    ~ValidHz(frequency) =>
        /\ snapped # Unset => snapped = 0
        /\ symbol # "unset" => symbol = " "

\* nan went through both functions
C17_Witness ==
    /\ frequency = NaN
    /\ snapped = 0
    /\ symbol = " "

\* C18: a frame stream in which every frame has frequency 0 produces an
\* empty note sequence, for any length, tempo and confidence values: no
\* note and no silence note is emitted, during the loop or after it.
C18_AllZeroGivesEmpty ==
    (\A r \in 1..Len(frames) : frames[r].freq = 0) => sequence = <<>>

\* two runs of zero frequency, one of them with high confidence, have been
\* processed to the end
C18_Witness ==
    /\ frames = <<Run(0, 500, MaxRunLen), Run(0, ConfidenceThreshold, 25)>>
    /\ bpm = 60
    /\ seg_pc = "done"
    /\ sequence = <<>>

\* the stream is one run of n confident frames of one frequency, and n
\* frames last more than the minimum note duration of 0.125 beats
OneLongNote ==
    /\ Len(frames) = 1
    /\ frames[1].freq > 0
    /\ frames[1].conf > ConfidenceThreshold
    /\ frames[1].len * hop_length * bpm * 8 > sr * 60

\* d is round(num / den), and num / den is not a tie
Nearest4(d, num, den) == 2 * (d * den - num) < den /\ 2 * (num - d * den) < den

\* C19: a stream of N confident frames of one frequency, where N frames
\* last more than the minimum duration at the tempo, produces exactly one
\* note; its duration is round(N * hop / sr * tempo / 60 * 4) / 4 (here in
\* quarter beats), its frequency the quantized frequency and its key the
\* table symbol of that frequency; 172 frames (0.5 s) of 440 Hz at 120 BPM
\* give frequency 440.00, key 'v' and duration 1.0.
C19_OneNoteForSteadyTone ==
    /\ (OneLongNote /\ seg_pc = "done") =>
          /\ Len(sequence) = 1
          /\ sequence[1].frequency = snap_to_pentatonic(Fin(frames[1].freq))
          /\ sequence[1].key = freq_to_key_map[sequence[1].frequency]
          /\ sequence[1].start_time = 0
          /\ Nearest4(sequence[1].duration,
                      frames[1].len * hop_length * bpm * 4, sr * 60)
    /\ (/\ frames = <<Run(44000, 500, 172)>>
        /\ bpm = 120
        /\ seg_pc = "done") => sequence = <<Note("v", 44000, 4, 0)>>

\* the example of the claim has been processed to the end
C19_Witness ==
    /\ frames = <<Run(44000, 500, 172)>>
    /\ bpm = 120
    /\ seg_pc = "done"
    /\ sequence = <<Note("v", 44000, 4, 0)>>

\* C20: merge_consecutive_notes is idempotent: for every note sequence S
\* ordered by start_time, merge(merge(S)) equals merge(S) note for note
\* (key, frequency, duration, start_time).
C20_MergeIdempotent ==
    merge_pc = "remerged" =>
        /\ Len(remerged) = Len(merged)
        /\ \A k \in 1..Len(merged) :
              /\ remerged[k].key = merged[k].key
              /\ remerged[k].frequency = merged[k].frequency
              /\ remerged[k].duration = merged[k].duration
              /\ remerged[k].start_time = merged[k].start_time

\* three notes of one key, each starting within the threshold of the end
\* of the one before, were merged into one note, and merged again
C20_Witness ==
    /\ merge_pc = "remerged"
    /\ notes = <<Note("v", 44000, Quarter, 0),
                 Note("v", 44000, Quarter, Quarter + MergeThreshold),
                 Note("v", 44000, Quarter, 2 * Quarter + MergeThreshold)>>
    /\ merged = <<Note("v", 44000, 3 * Quarter + MergeThreshold, 0)>>
    /\ remerged = merged

\* positions of the notes of merged whose duration is at least 0.125
KeptPositions == {k \in 1..Len(merged) : merged[k].duration >= MinDuration}

\* the i-th kept position, counted from the left
KeptAt(i) ==
    CHOOSE k \in KeptPositions : Cardinality({m \in KeptPositions : m <= k}) = i

\* C21: the duration filter keeps exactly the notes whose duration is at
\* least 0.125 beat, in their original order: the output is never longer
\* than the input, no note with duration >= 0.125 is removed, every note
\* with duration < 0.125 (silence notes included) is removed, and the kept
\* notes are unchanged.
C21_FilterKeepsLongNotes ==
    merge_pc = "filtered" =>
        /\ Len(filtered) <= Len(merged)
        /\ Len(filtered) = Cardinality(KeptPositions)
        /\ \A i \in 1..Len(filtered) : filtered[i] = merged[KeptAt(i)]

\* a silence note just below 0.125 was removed from between a note of
\* exactly 0.125 and a note of 0.25, which were kept in order
C21_Witness ==
    /\ merge_pc = "filtered"
    /\ merged = <<Note("v", 44000, MinDuration, 0),
                  Note(" ", 0, MinDuration - 1, 0),
                  Note("v", 44000, Quarter, 0)>>
    /\ filtered = <<Note("v", 44000, MinDuration, 0),
                    Note("v", 44000, Quarter, 0)>>

\* the merge rule's test on two notes
Mergeable(a, b) ==
    /\ a.key = b.key
    /\ a.frequency = b.frequency
    /\ b.start_time - (a.start_time + a.duration) <= MergeThreshold

\* C22: in the sequence of the analysis result (after merge and then
\* filter) no two adjacent notes are mergeable: no adjacent pair has the
\* same key and frequency and a gap, as the merge rule computes it, within
\* the merge tolerance.
C22_NoAdjacentMergeable ==
    seg_pc = "result" =>
        \A k \in 1..(Len(result_sequence) - 1) :
            ~Mergeable(result_sequence[k], result_sequence[k + 1])

\* C23: every note of the sequence of an analysis result, including the
\* notes produced by merging, has a duration that is a multiple of 0.25
\* beat.
C23_DurationsOnQuarterGrid ==
    seg_pc = "result" =>
        \A k \in 1..Len(result_sequence) :
            result_sequence[k].duration % Quarter = 0

\* the open note of the segmentation loop
Pending == <<current_freq, current_start_time, current_frame_count>>

C25_KeyRoundTrip ==
    (rt_via = "instance" /\ rt_freq \in BasicFrequencies) =>
        /\ rt_pc # "raised"
        /\ rt_pc = "recovered" =>
              /\ rt_recovered - rt_freq < 1
              /\ rt_freq - rt_recovered < 1

\* the frame the loop is at is an accepted one and the step processes it
AcceptedStep ==
    /\ seg_pc = "loop"
    /\ frame_i < TotalLen(frames)
    /\ Accepted(FrameAt(frames, frame_i))
    /\ frame_i' = frame_i + 1

\* the step starts a new pending note from the current frame
StartsPending ==
    /\ current_freq' = Quantized[FrameAt(frames, frame_i).freq]
    /\ current_start_time' = frame_i * hop_length
    /\ current_frame_count' = 1

\* the step flushes the pending note: it appends one note with the pending
\* frequency, key and start time when the note is long enough, and nothing
\* otherwise
FlushesPending ==
    IF current_frame_count >= min_frames(bpm)
    THEN /\ Len(sequence') = Len(sequence) + 1
         /\ SubSeq(sequence', 1, Len(sequence)) = sequence
         /\ sequence'[Len(sequence')].frequency = current_freq
         /\ sequence'[Len(sequence')].key = frequency_to_key(Fin(current_freq))
         /\ sequence'[Len(sequence')].start_time = current_start_time
    ELSE sequence' = sequence

\* C26: on an accepted frame with a pending note, a quantized frequency
\* less than half a semitone from the pending one adds exactly 1 to the
\* pending frame count, emits nothing and leaves the start time alone; any
\* other quantized frequency flushes the pending note and starts a new
\* pending note at the frame's time with frame count 1.  With no pending
\* note an accepted frame starts one with frame count 1.
C26_AcceptedFrame ==
    [][AcceptedStep =>
          IF current_freq = None
          THEN StartsPending /\ sequence' = sequence
          ELSE IF is_same_note(Quantized[FrameAt(frames, frame_i).freq],
                               current_freq)
               THEN /\ current_frame_count' = current_frame_count + 1
                    /\ sequence' = sequence
                    /\ current_start_time' = current_start_time
                    /\ current_freq' = current_freq
               ELSE FlushesPending /\ StartsPending]_vars

\* a note was continued for 25 frames, flushed at a boundary, and the next
\* note is pending with one frame
C26_Witness ==
    /\ frames = <<Run(26163, 500, 25), Run(44000, 500, 25)>>
    /\ bpm = 120
    /\ seg_pc = "loop"
    /\ frame_i = 26
    /\ sequence = <<Note("k", 26163, 1, 0)>>
    /\ current_freq = 44000
    /\ current_start_time = 25 * hop_length
    /\ current_frame_count = 1

\* the frame the loop is at is a rejected one and the step processes it
RejectedStep ==
    /\ seg_pc = "loop"
    /\ frame_i < TotalLen(frames)
    /\ Rejected(FrameAt(frames, frame_i))
    /\ frame_i' = frame_i + 1

\* the sequence once the pending note is flushed
Flushed ==
    IF current_frame_count >= min_frames(bpm)
    THEN Append(sequence, OpenNote(bpm))
    ELSE sequence

\* samples from the end of the pending note to the current frame
GapSamples ==
    frame_i * hop_length
        - (current_start_time + current_frame_count * hop_length)

\* the gap exceeds the minimum note duration (0.125 beat, in seconds) and
\* is at least 0.25 beat once rounded to the nearest quarter beat
SignificantGap ==
    /\ GapSamples * bpm * 8 > 60 * sr
    /\ Round(GapSamples * bpm * 4, sr * 60) >= 1

C28_FlushRuleNoZeroDuration ==
    \A k \in 1..Len(sequence) : 2 * sequence[k].duration >= 1

\* C29: every pitched note the segmenter emits from a pending note of
\* frameCount frames has duration round(frameCount * hop / sr * tempo / 60
\* * 4) / 4 beats (here in quarter beats), at the note boundary, on a
\* rejected frame and at the end of the stream, whatever the frequencies.
C29_DurationLaw ==
    [][Len(sequence') > Len(sequence) =>
          LET emitted == sequence'[Len(sequence) + 1]
          IN  /\ emitted.frequency = current_freq
              /\ emitted.frequency > 0
              /\ Nearest4(emitted.duration,
                          current_frame_count * hop_length * bpm * 4,
                          sr * 60)]_vars

\* a note of 25 frames was emitted at a note boundary and one of 172
\* frames at the end of the stream
C29_Witness ==
    /\ frames = <<Run(26163, 500, 25), Run(44000, 500, MaxRunLen)>>
    /\ bpm = 120
    /\ seg_pc = "done"
    /\ sequence = <<Note("k", 26163, 1, 0),
                    Note("v", 44000, 4, 25 * hop_length)>>

\* the end of a note in time: its start plus its duration in beats taken
\* to seconds at tempo t
EndTime(note, t) == note.start_time + (note.duration * 60) \div t

\* the merge rule as stated, from next = seq[k] on: the next note joins the
\* current one when key and frequency are identical and the time from the
\* end of the current note to the start of the next is at most 8 ms; the
\* joined note keeps its start and lasts, in beats, to the end of the next
RECURSIVE MergeRuleFrom(_, _, _, _, _)
MergeRuleFrom(seq, k, cur, out, t) ==
    IF k > Len(seq) THEN Append(out, cur)
    ELSE LET next == seq[k]
         IN  IF /\ cur.key = next.key
                /\ cur.frequency = next.frequency
                /\ next.start_time - EndTime(cur, t) <= MergeThreshold
             THEN MergeRuleFrom(seq, k + 1,
                                [cur EXCEPT !.duration =
                                    ((next.start_time - cur.start_time) * t)
                                        \div 60 + next.duration],
                                out, t)
             ELSE MergeRuleFrom(seq, k + 1, next, Append(out, cur), t)

MergeRule(seq, t) ==
    IF seq = <<>> THEN seq ELSE MergeRuleFrom(seq, 2, seq[1], <<>>, t)

\* C30: the merge pass, scanning left to right, merges two adjacent notes
\* if and only if key and frequency are identical and the time gap from
\* the end of the first to the start of the second is at most 8 ms; the
\* merged note keeps the first note's start and its duration covers both
\* notes plus the gap; a run of three or more collapses into one note.
C30_MergeRule ==
    seg_pc = "merged" => after_merge = MergeRule(Numbers(sequence), bpm)

\* C31: once a job's background thread has ended, the job's record holds
\* no thread handle, under every interleaving of the submit handler's
\* store of the handle with the thread's finally block.
C31_NoHandleAfterThreadEnd ==
    \A j \in JobIds :
        (tphase[j] = "done" /\ Present(progress_store, j)) =>
            ~progress_store[j].thread

\* C32: the cap is tested at every frame index divisible by 500 and
\* whenever more than 30 s passed since the last test, so at least once in
\* every 500 consecutive frames; once the elapsed time exceeds the cap, at
\* most 499 further frames are processed before the loop stops.
C32_CapTestedEvery500 ==
    [][/\ (/\ cap_pc = "loop"
           /\ cap_i < TotalCapFrames
           /\ (cap_i % 500 = 0 \/ cap_now - cap_last > 30)) =>
              \/ cap_pc' = "timeout"
              \/ cap_last' = cap_now /\ cap_now <= 120
       /\ cap_over' <= 499]_vars

\* the loop stopped at frame 1000 after 499 frames processed above the cap
C32_Witness ==
    /\ cap_pc = "timeout"
    /\ cap_i = 1000
    /\ cap_over = 499

\* the tempo is the hint
UsesHint(t) == t.bpm = bt_hint

\* C33: the tempo used for segmentation and reported in the result is the
\* beat tracker's estimate when the estimate lies in [60, 200], with tempo
\* source 'detected', and the client's bpm hint when the estimate is below
\* 60 or above 200; the tempo source names which of the two was used.
C33_TempoSelection ==
    /\ (bt_pc \in {"selected", "ready", "raised", "reported"}
            /\ bt_estimate # NoEstimate) =>
           IF bt_estimate >= 60 /\ bt_estimate <= 200
           THEN bt_tempo.bpm = bt_estimate /\ bt_tempo.source = "detected"
           ELSE UsesHint(bt_tempo) /\ bt_tempo.source = "BPM hint"
    /\ (bt_pc \in {"selected", "ready", "raised", "reported"}
            /\ bt_estimate = NoEstimate) =>
           /\ UsesHint(bt_tempo)
           /\ bt_tempo.source = "BPM hint (beat tracking failed)"
    /\ bt_pc \in {"ready", "reported"} =>
           bt_min_frames = Max2(1, (60 * sr) \div (8 * hop_length * bt_tempo.bpm))
    /\ bt_pc = "reported" =>
           /\ bt_result.bpm = bt_tempo.bpm
           /\ bt_result.source = bt_tempo.source

\* the estimate 200 was used and reported as detected tempo
C33_Witness ==
    /\ bt_pc = "reported"
    /\ bt_estimate = 200
    /\ bt_hint = 120
    /\ bt_result.bpm = 200
    /\ bt_result.source = "detected"

\* C34: during one pipeline execution the stage stored in the job's record
\* stays within 0..7 and never decreases, so successive snapshots of the
\* job show the stages in pipeline order with no step back.
C34_StageNeverDecreases ==
    [][\A j \in JobIds :
          (Present(progress_store, j) /\ Present(progress_store', j)) =>
              /\ progress_store'[j].stage \in 0..7
              /\ progress_store'[j].stage >= progress_store[j].stage]_vars

\* C35: the progress percentage stored in a job's record is always within
\* 0..100 and never decreases over the job's lifetime, the per-frame
\* updates of the segmentation stage and the update after the frame loop
\* included.
C35_ProgressNeverDecreases ==
    [][\A j \in JobIds :
          (Present(progress_store, j) /\ Present(progress_store', j)) =>
              /\ progress_store'[j].progress \in 0..100
              /\ progress_store'[j].progress >= progress_store[j].progress]_vars

\* C36: in every reachable registry state a job whose status is completed
\* or failed has progress 100, whichever path wrote the terminal status
\* (pipeline success, pipeline exception, finally block, or the submit
\* handler's error path).
C36_TerminalHasFullProgress ==
    \A j \in JobIds :
        (Present(progress_store, j) /\ Terminal(progress_store[j].status)) =>
            progress_store[j].progress = 100

\* the step is a step of job j's thread
ThreadStep(j) ==
    \/ tphase'[j] # tphase[j]
    \/ tstep'[j] # tstep[j]
    \/ tframe'[j] # tframe[j]

\* C37: a registry write for one job (progress update, completion,
\* failure, finally block) leaves the record of every other job unchanged;
\* a progress update for a job id that is not in the registry, or with no
\* job id, changes nothing in the registry and does not raise.
C37_WritesTouchOwnRecordOnly ==
    [][/\ \A j \in JobIds :
             ThreadStep(j) =>
                 \A k \in JobIds \ {j} : progress_store'[k] = progress_store[k]
       /\ resp'.op = "update_progress" =>
             /\ progress_store' = progress_store
             /\ resp'.code = 0]_vars

\* one job completed while the other is in its third stage, and an update
\* for the removed first job has just returned
C37_Witness ==
    /\ ~Present(progress_store, "j1")
    /\ tphase["j1"] = "done"
    /\ progress_store["j2"].status = "running"
    /\ progress_store["j2"].stage = 3
    /\ resp.op = "update_progress"
    /\ resp.id = "j1"

\* a note is self-consistent: frequency 0 goes with the space key, any
\* other frequency is in the key table and goes with its table symbol
SelfConsistent(note) ==
    IF note.frequency = 0
    THEN note.key = " "
    ELSE /\ note.frequency \in TableFrequencies
         /\ note.key = freq_to_key_map[note.frequency]
         /\ note.key # " "

\* C38: every note of a produced sequence is self-consistent: a silence
\* note has key space and frequency 0; every other note has a frequency of
\* the key table and that frequency's table symbol as key, so a pitched
\* note never carries the space key.
C38_NotesSelfConsistent ==
    /\ \A k \in 1..Len(sequence) : SelfConsistent(sequence[k])
    /\ \A k \in 1..Len(after_merge) : SelfConsistent(after_merge[k])
    /\ \A k \in 1..Len(result_sequence) : SelfConsistent(result_sequence[k])

\* a result holding a pitched note followed by a silence note
C38_Witness ==
    /\ seg_pc = "result"
    /\ Len(result_sequence) = 2
    /\ result_sequence[1].key = "v"
    /\ result_sequence[1].frequency = 44000
    /\ result_sequence[2].key = " "
    /\ result_sequence[2].frequency = 0

\* start_time is strictly increasing along the sequence
Ascending(seq) ==
    \A k \in 1..(Len(seq) - 1) : seq[k].start_time < seq[k + 1].start_time

\* C39: in every sequence produced by segmentation, and still after merge
\* and filter, the notes are in temporal order: start_time is strictly
\* increasing along the sequence (the frame times are strictly increasing).
C39_TemporalOrder ==
    /\ Ascending(sequence)
    /\ Ascending(after_merge)
    /\ Ascending(result_sequence)

\* a result of two notes, the second starting at frame 25
C39_Witness ==
    /\ seg_pc = "result"
    /\ result_sequence =
          Numbers(<<Note("k", 26163, 1, 0),
                    Note("v", 44000, 4, 25 * hop_length)>>)

\* the pentatonic frequencies, and the keys of the other table entries
PentatonicSet == {pentatonic_freqs[k] : k \in 1..Len(pentatonic_freqs)}
OtherKeys == {freq_to_key_map[f] : f \in TableFrequencies \ PentatonicSet}

\* C40: for every finite frequency f > 0, snap_to_pentatonic(f) is one of
\* the 13 pentatonic frequencies: the 11 table frequencies outside the
\* pentatonic scale (65.41, 174.61, 493.88, ...) are never returned, and
\* their keys never belong to a quantized frequency.
C40_SnapIsPentatonic ==
    /\ Cardinality(PentatonicSet) = 13
    /\ Cardinality(TableFrequencies \ PentatonicSet) = 11
    /\ {6541, 17461, 49388} \subseteq TableFrequencies \ PentatonicSet
    /\ (ValidHz(frequency) /\ snapped # Unset) =>
           /\ snapped \in PentatonicSet
           /\ frequency_to_key(Fin(snapped)) \notin OtherKeys

\* 493.88 Hz, a table frequency outside the scale, was quantized to 523.25
C40_Witness ==
    /\ frequency = Fin(49388)
    /\ snapped = 52325

====
